---- MODULE Spec2Model ----
(***************************************************************************)
(* mailrules: the rule engine (rules package), the orchestration loop      *)
(* (main, processMailbox) and the rule-file front end (lexer, parser).     *)
(***************************************************************************)
EXTENDS Integers, Sequences, FiniteSets, TLC

(***************************************************************************)
(* Bounds of the model.                                                    *)
(***************************************************************************)
\* Message identifiers (UIDs) the server ever hands out: 1..MaxUid.
MaxUid == 2
\* Scans (calls of processMailbox) of one run of the process.
MaxScans == 2
\* Pieces a rule text handed to Parse is made of.
MaxPieces == 2

\* make(chan *imap.Message, 10)
ChanCap == 10

UIDs == 1..MaxUid

\* imap.FlaggedFlag
FlaggedFlag == "\\Flagged"

\* const mailbox = "INBOX"
mailbox == "INBOX"

(***************************************************************************)
(* The mailbox server's messages.  The envelope of a message is fixed by   *)
(* its UID; its flags and its presence in INBOX change.                    *)
(***************************************************************************)
Envelope(uid) ==
    CASE uid % 3 = 1 -> [From |-> <<"b@example.com">>,
                         To |-> <<"vip@example.com", "x@example.com">>,
                         Subject |-> "dealbreaker"]
      [] uid % 3 = 2 -> [From |-> <<"a@example.com">>,
                         To |-> <<"x@example.com">>,
                         Subject |-> "Deal!"]
      [] OTHER       -> [From |-> <<"a@example.com", "b@example.com">>,
                         To |-> <<>>,
                         Subject |-> "Hello"]

\* Flags a message may carry when it arrives.
InitialFlags(uid) ==
    CASE uid % 3 = 0 -> {"Promo"}
      [] uid % 3 = 1 -> {FlaggedFlag}
      [] OTHER       -> {}

(***************************************************************************)
(* Predicates (rules package).                                             *)
(***************************************************************************)
\* StringEqualsPredicate.MatchString
StringEquals_MatchString(p, s) == p.lit = s

(***************************************************************************)
(* MatchString of regexp.Regexp, for the expressions made of literal       *)
(* runes, ".", a leading "^" and a trailing "$".  The expression and the   *)
(* string are sequences of runes; the match is unanchored unless the       *)
(* expression anchors it.                                                  *)
(***************************************************************************)
RegexpAnchoredStart(src) == src # <<>> /\ src[1] = "^"

RegexpAnchoredEnd(src) == src # <<>> /\ src[Len(src)] = "$"

\* the expression without its anchors
RegexpCore(src) ==
    SubSeq(src, IF RegexpAnchoredStart(src) THEN 2 ELSE 1,
                IF RegexpAnchoredEnd(src) THEN Len(src) - 1 ELSE Len(src))

\* the runes of s from position k on match core ("." is any rune but newline)
RegexpMatchAt(core, s, k) ==
    /\ k + Len(core) - 1 <= Len(s)
    /\ \A j \in 1..Len(core) :
          \/ core[j] = "." /\ s[k + j - 1] # "\n"
          \/ core[j] = s[k + j - 1]

Regexp_MatchString(p, s) ==
    LET core == RegexpCore(p.src) IN
      \E k \in 1..(Len(s) + 1) :
         /\ RegexpAnchoredStart(p.src) => k = 1
         /\ RegexpAnchoredEnd(p.src) => k + Len(core) - 1 = Len(s)
         /\ RegexpMatchAt(core, s, k)

\* StringPredicate.MatchString, by variant
MatchString(p, s) ==
    CASE p.t = "eq" -> StringEquals_MatchString(p, s)
      [] p.t = "re" -> Regexp_MatchString(p, s)

\* the address loop of FieldPredicate.MatchMessage returning false at the
\* first address that fails instead of true at the first that matches
AllAddress(p, addrs) == \A k \in 1..Len(addrs) : MatchString(p, addrs[k])

\* the loop of FieldPredicate.MatchMessage over an address list
AnyAddress(p, addrs) == \E k \in 1..Len(addrs) : MatchString(p, addrs[k])

\* FieldPredicate.MatchMessage
FieldPredicate_MatchMessage(p, env) ==
    CASE p.Field = "to"      -> AnyAddress(p.Predicate, env.To)
      [] p.Field = "from"    -> AnyAddress(p.Predicate, env.From)
      [] p.Field = "subject" -> MatchString(p.Predicate, env.Subject)
      [] OTHER               -> FALSE

\* msg.Envelope: a message of the mailbox server carries the envelope of its UID
MessageEnvelope(msg) ==
    IF "Envelope" \in DOMAIN msg THEN msg.Envelope ELSE Envelope(msg.Uid)

RECURSIVE MatchMessage(_, _)
\* Predicate.MatchMessage, by variant (And, Or, Not, Field)
MatchMessage(p, msg) ==
    CASE p.t = "and"   -> MatchMessage(p.Left, msg) /\ MatchMessage(p.Right, msg)
      [] p.t = "or"    -> MatchMessage(p.Left, msg) \/ MatchMessage(p.Right, msg)
      [] p.t = "not"   -> ~MatchMessage(p.Predicate, msg)
      [] p.t = "field" -> FieldPredicate_MatchMessage(p, MessageEnvelope(msg))

Eq(field, lit) == [t |-> "field", Field |-> field, Predicate |-> [t |-> "eq", lit |-> lit]]
And(l, r) == [t |-> "and", Left |-> l, Right |-> r]
Or(l, r) == [t |-> "or", Left |-> l, Right |-> r]
Not(p) == [t |-> "not", Predicate |-> p]

(***************************************************************************)
(* The rule list of the run, as Parse returns it for the rule file         *)
(*   if from = "a@example.com" then move "Archive";                        *)
(*   if subject = "Deal!" or from = "b@example.com" then flag "Promo";     *)
(*   if to = "vip@example.com" then unflag;                                *)
(*   if not subject = "Hello" then stream rfc822 "http://sink";            *)
(***************************************************************************)
\* NewMoveRule
NewMoveRule(predicate, mbox) ==
    [kind |-> "move", Predicate |-> predicate, Mailbox |-> mbox]

\* NewFlagRule without the default for the empty flag
NewFlagRule_NoDefault(predicate, flag) ==
    [kind |-> "flag", Predicate |-> predicate, Flag |-> flag]

\* NewFlagRule
NewFlagRule(predicate, flag) ==
    [kind |-> "flag", Predicate |-> predicate,
     Flag |-> IF flag = "" THEN FlaggedFlag ELSE flag]

\* NewUnflagRule
NewUnflagRule(predicate, flag) ==
    [kind |-> "unflag", Predicate |-> predicate,
     Flag |-> IF flag = "" THEN FlaggedFlag ELSE flag]

\* NewStreamRule
NewStreamRule(predicate, content, url) ==
    [kind |-> "stream", Predicate |-> predicate, Content |-> content, URL |-> url]

Rules ==
    << NewMoveRule(Eq("from", "a@example.com"), "Archive"),
       NewFlagRule(Or(Eq("subject", "Deal!"), Eq("from", "b@example.com")), "Promo"),
       NewUnflagRule(Eq("to", "vip@example.com"), ""),
       NewStreamRule(Not(Eq("subject", "Hello")), "rfc822", "http://sink") >>

NRules == Len(Rules)
RuleIds == 1..NRules

(***************************************************************************)
(* The rule-file front end: the lexer (parse package).  A rune is a        *)
(* one-character string; the buffer is a sequence of runes.  Positions     *)
(* count from 0 as in the source.                                          *)
(***************************************************************************)
\* lex.r at the end of the buffer (the rune -1)
RuneEOF == "EOF"

\* the byte 0 of the buffer (the rune 0)
RuneNUL == "NUL"

Lower == {"a", "b", "c", "d", "e", "f", "g", "h", "i", "j", "k", "l", "m",
          "n", "o", "p", "q", "r", "s", "t", "u", "v", "w", "x", "y", "z"}
Upper == {"A", "B", "C", "D", "E", "F", "G", "H", "I", "J", "K", "L", "M",
          "N", "O", "P", "Q", "R", "S", "T", "U", "V", "W", "X", "Y", "Z"}
Digits == {"0", "1", "2", "3", "4", "5", "6", "7", "8", "9"}

isAlpha(r) == r \in Lower \cup Upper \cup {"_", "$"}

isDigit(r) == r \in Digits

\* opTable[r]; TokenError is the zero value of the table
opTable(r) ==
    CASE r = "+"  -> "TokenPlus"
      [] r = "-"  -> "TokenMinus"
      [] r = "*"  -> "TokenMultiply"
      [] r = "/"  -> "TokenDivide"
      [] r = "."  -> "TokenPeriod"
      [] r = "\\" -> "TokenBackslash"
      [] r = ":"  -> "TokenColon"
      [] r = "%"  -> "TokenPercent"
      [] r = "|"  -> "TokenPipe"
      [] r = "!"  -> "TokenExclamation"
      [] r = "?"  -> "TokenQuestion"
      [] r = "#"  -> "TokenPound"
      [] r = "&"  -> "TokenAmpersand"
      [] r = ";"  -> "TokenSemi"
      [] r = ","  -> "TokenComma"
      [] r = "("  -> "TokenLeftParen"
      [] r = ")"  -> "TokenRightParen"
      [] r = "<"  -> "TokenLeftAngle"
      [] r = ">"  -> "TokenRightAngle"
      [] r = "{"  -> "TokenLeftBrace"
      [] r = "}"  -> "TokenRightBrace"
      [] r = "["  -> "TokenLeftBracket"
      [] r = "]"  -> "TokenRightBracket"
      [] r = "="  -> "TokenEquals"
      [] r = "~"  -> "TokenTilde"
      [] OTHER    -> "TokenError"

\* a string of the source as the TLA+ string of the same characters
RECURSIVE GoString(_)
GoString(s) == IF s = <<>> THEN "" ELSE s[1] \o GoString(Tail(s))

\* reservedWords: the token type of a reserved word, TokenIdentifier otherwise
reservedWords(val) ==
    CASE GoString(val) = "if"     -> "TokenIf"
      [] GoString(val) = "move"   -> "TokenMove"
      [] GoString(val) = "and"    -> "TokenAnd"
      [] GoString(val) = "or"     -> "TokenOr"
      [] GoString(val) = "not"    -> "TokenNot"
      [] GoString(val) = "then"   -> "TokenThen"
      [] GoString(val) = "flag"   -> "TokenFlag"
      [] GoString(val) = "unflag" -> "TokenUnflag"
      [] GoString(val) = "stream" -> "TokenStream"
      [] OTHER                    -> "TokenIdentifier"

Token(type, value, position) ==
    [Type |-> type, Value |-> value, Position |-> position]

makeErrorToken(pos) == Token("TokenError", <<>>, pos)

\* buf[a:b]
Slice(buf, a, b) == SubSeq(buf, a + 1, b)

\* Lexer.next
next(l) ==
    IF l.nextpos < Len(l.buf)
    THEN [l EXCEPT !.rpos = l.nextpos,
                   !.r = l.buf[l.nextpos + 1],
                   !.nextpos = l.nextpos + 1]
    ELSE [l EXCEPT !.rpos = Len(l.buf), !.r = RuneEOF]

NewLexer(buf) == next([buf |-> buf, r |-> RuneEOF, rpos |-> 0, nextpos |-> 0])

\* Lexer.peekNextByte
peekNextByte(l) ==
    IF l.nextpos < Len(l.buf) THEN l.buf[l.nextpos + 1] ELSE RuneEOF

RECURSIVE skipNontokens(_)
\* Lexer.skipNontokens
skipNontokens(l) ==
    IF l.r \in {" ", "\t", "\n", "\r"} THEN skipNontokens(next(l)) ELSE l

RECURSIVE identifierEnd(_)
\* the loop of scanIdentifier
identifierEnd(l) ==
    IF isAlpha(l.r) \/ isDigit(l.r) THEN identifierEnd(next(l)) ELSE l

\* Lexer.scanIdentifier
scanIdentifier(l) ==
    LET e == identifierEnd(l)
        val == Slice(l.buf, l.rpos, e.rpos)
    IN [tok |-> Token(reservedWords(val), val, l.rpos), lex |-> e]

RECURSIVE numberEnd(_)
\* the loop of scanNumber
numberEnd(l) == IF isDigit(l.r) THEN numberEnd(next(l)) ELSE l

\* Lexer.scanNumber
scanNumber(l) ==
    LET e == numberEnd(l)
    IN [tok |-> Token("TokenNumber", Slice(l.buf, l.rpos, e.rpos), l.rpos),
        lex |-> e]

RECURSIVE quoteEnd(_)
\* the loop of scanQuote: the lexer where the loop ends, with bad set when
\* the loop returned the error token of an illegal escape
quoteEnd(l) ==
    IF l.r \notin {RuneEOF, RuneNUL} /\ l.r # "\""
    THEN IF l.r = "\\"
         THEN LET e == next(l)
              IN IF e.r \in {"\\", "\""}
                 THEN quoteEnd(next(e))
                 ELSE [lex |-> e, bad |-> TRUE]
         ELSE quoteEnd(next(l))
    ELSE [lex |-> l, bad |-> FALSE]

\* Lexer.scanQuote
scanQuote(l) ==
    LET q == quoteEnd(next(l))
    IN IF q.bad THEN [tok |-> makeErrorToken(q.lex.rpos), lex |-> q.lex]
       ELSE IF q.lex.r = RuneEOF
            THEN [tok |-> makeErrorToken(l.rpos), lex |-> q.lex]
            ELSE [tok |-> Token("TokenQuote",
                                Slice(l.buf, l.rpos, next(q.lex).rpos), l.rpos),
                  lex |-> next(q.lex)]

RECURSIVE commentEnd(_)
\* the loop of scanComment
commentEnd(l) ==
    IF l.r \notin {RuneEOF, RuneNUL} /\ l.r # "\n" THEN commentEnd(next(l)) ELSE l

\* Lexer.scanComment
scanComment(l) ==
    LET e == commentEnd(next(l))
    IN [tok |-> Token("TokenComment", Slice(l.buf, l.rpos, e.rpos), l.rpos),
        lex |-> next(e)]

\* an operator token returned without a call of next
opToken_NoAdvance(l) ==
    [tok |-> Token(opTable(l.r), <<l.r>>, l.rpos), lex |-> l]

\* lines 206-208 of NextToken: the token of an operator, the lexer moved
\* past it
opToken(l) ==
    [tok |-> Token(opTable(l.r), Slice(l.buf, l.rpos, next(l).rpos), l.rpos),
     lex |-> next(l)]

\* Lexer.NextToken: the token and the lexer after the call
NextToken(l0) ==
    LET l == skipNontokens(l0)
    IN IF l.r = RuneEOF
       THEN [tok |-> Token("TokenEOF", <<>>, l.nextpos), lex |-> l]
       ELSE IF opTable(l.r) # "TokenError"
       THEN IF opTable(l.r) = "TokenDivide" /\ peekNextByte(l) = "/"
            THEN scanComment(l)
            ELSE opToken(l)
       ELSE IF isAlpha(l.r) THEN scanIdentifier(l)
       ELSE IF isDigit(l.r) THEN scanNumber(l)
       ELSE IF l.r = "\"" THEN scanQuote(l)
       ELSE [tok |-> makeErrorToken(l.rpos), lex |-> l]

(***************************************************************************)
(* The parser (parse package): Parser.Lex, the grammar rules.y with its    *)
(* semantic actions, Parser.Parse.                                         *)
(***************************************************************************)
\* the token numbers goyacc gives the tokens of rules.y, in the order of
\* their declaration (IF and THEN, reserved here, are yyIF and yyTHEN)
AND == 57346
OR == 57347
NOT == 57348
IDENTIFIER == 57349
QUOTE == 57350
TILDE == 57351
EQUALS == 57352
yyTHEN == 57353
SEMICOLON == 57354
yyIF == 57355
MOVE == 57356
FLAG == 57357
UNFLAG == 57358
STREAM == 57359
LPAREN == 57360
RPAREN == 57361

\* tokenNumbers[type]: an array indexed by token type; a type without an
\* entry holds the zero value
tokenNumbers(type) ==
    CASE type = "TokenIdentifier" -> IDENTIFIER
      [] type = "TokenQuote"      -> QUOTE
      [] type = "TokenEquals"     -> EQUALS
      [] type = "TokenTilde"      -> TILDE
      [] type = "TokenSemi"       -> SEMICOLON
      [] type = "TokenIf"         -> yyIF
      [] type = "TokenMove"       -> MOVE
      [] type = "TokenAnd"        -> AND
      [] type = "TokenOr"         -> OR
      [] type = "TokenNot"        -> NOT
      [] type = "TokenThen"       -> yyTHEN
      [] type = "TokenFlag"       -> FLAG
      [] type = "TokenUnflag"     -> UNFLAG
      [] type = "TokenStream"     -> STREAM
      [] type = "TokenLeftParen"  -> LPAREN
      [] type = "TokenRightParen" -> RPAREN
      [] OTHER                    -> 0

\* a nil error; an error is the sequence of the parts of its message
NilErr == <<>>

\* a nil Predicate
NilPredicate == [t |-> "nil"]

\* NewParser, over the zero Token
NewParser == [last |-> Token("TokenError", <<>>, 0), result |-> <<>>, err |-> NilErr]

RECURSIVE Lex(_, _, _)
\* Parser.Lex: the number it returns, lval, the parser and the lexer after it
Lex(pp, l, lval) ==
    LET nt == NextToken(l)
        tok == nt.tok
        p1 == [pp EXCEPT !.last = tok]
    IN CASE tok.Type = "TokenEOF" ->
              [n |-> -1, lval |-> lval, p |-> p1, lex |-> nt.lex]
         [] tok.Type = "TokenError" ->
              [n |-> -1, lval |-> lval, lex |-> nt.lex,
               p |-> [p1 EXCEPT !.err = <<"lexing error: ", GoString(tok.Value)>>]]
         [] tok.Type = "TokenComment" -> Lex(p1, nt.lex, lval)
         [] OTHER ->
              [n |-> tokenNumbers(tok.Type), lval |-> tok.Value, p |-> p1,
               lex |-> nt.lex]

\* Parser.Error
Error(pp, err) == [pp EXCEPT !.err = <<err, " near position ", pp.last.Position>>]

\* the grammar symbol of a number Lex returned: the generated parser reads
\* every number that is not positive as the end of the input
yyTokname(char) ==
    IF char <= 0 THEN "$end"
    ELSE CASE char = AND -> "AND"
           [] char = OR -> "OR"
           [] char = NOT -> "NOT"
           [] char = IDENTIFIER -> "IDENTIFIER"
           [] char = QUOTE -> "QUOTE"
           [] char = TILDE -> "TILDE"
           [] char = EQUALS -> "EQUALS"
           [] char = yyTHEN -> "THEN"
           [] char = SEMICOLON -> "SEMICOLON"
           [] char = yyIF -> "IF"
           [] char = MOVE -> "MOVE"
           [] char = FLAG -> "FLAG"
           [] char = UNFLAG -> "UNFLAG"
           [] char = STREAM -> "STREAM"
           [] char = LPAREN -> "LPAREN"
           [] char = RPAREN -> "RPAREN"

RECURSIVE ReplaceAll(_, _, _)
\* strings.ReplaceAll
ReplaceAll(s, old, new) ==
    IF Len(s) < Len(old) THEN s
    ELSE IF SubSeq(s, 1, Len(old)) = old
         THEN new \o ReplaceAll(SubSeq(s, Len(old) + 1, Len(s)), old, new)
         ELSE <<s[1]>> \o ReplaceAll(Tail(s), old, new)

\* string: QUOTE
Unquote(q) ==
    ReplaceAll(ReplaceAll(Slice(q, 1, Len(q) - 1), <<"\\", "\"">>, <<"\"">>),
               <<"\\", "\\">>, <<"\\">>)

RECURSIVE ParenDepth(_, _)
\* the nesting of the groups of a pattern: the depth at its end, -1 once a
\* group is closed that was not opened
ParenDepth(s, d) ==
    IF s = <<>> THEN d
    ELSE IF s[1] = "(" THEN ParenDepth(Tail(s), d + 1)
    ELSE IF s[1] = ")" THEN IF d = 0 THEN -1 ELSE ParenDepth(Tail(s), d - 1)
    ELSE ParenDepth(Tail(s), d)

\* regexp.Compile returns an error (for the patterns of letters and groups:
\* a group that is not closed or not opened)
regexpCompileFails(s) == ParenDepth(s, 0) # 0

\* NewFieldPredicate returns an error
UnknownField(field) == field \notin {"to", "from", "subject"}

\* a FieldPredicate over a compiled regular expression
Re(field, src) ==
    [t |-> "field", Field |-> field, Predicate |-> [t |-> "re", src |-> src]]

\* NewStreamRule of the rules package the grammar is written against
NewStreamRule_Command(predicate, command) ==
    [kind |-> "stream", Predicate |-> predicate, Command |-> command]

Sym(sym, val) == [sym |-> sym, val |-> val]

\* the stack with its top n symbols replaced by one
Reduced(S, n, sym, val) == Append(SubSeq(S, 1, Len(S) - n), Sym(sym, val))

\* the symbols of the top n entries of the stack
Top(S, n) ==
    IF Len(S) < n THEN <<>>
    ELSE [k \in 1..n |-> S[Len(S) - n + k].sym]

\* %left AND OR  %right NOT: the precedence level of a token (a later
\* declaration binds tighter), none for the other tokens
yyPrec_NotLoosest(tok) ==
    CASE tok = "NOT" -> "level1"
      [] tok \in {"AND", "OR"} -> "level2"
      [] OTHER -> "none"

yyPrec(tok) ==
    CASE tok \in {"AND", "OR"} -> "level1"
      [] tok = "NOT" -> "level2"
      [] OTHER -> "none"

\* the associativity the declarations give a token
yyAssoc_Right(tok) == "right"

yyAssoc(tok) == IF tok \in {"AND", "OR"} THEN "left" ELSE "right"

\* how yacc settles a rule whose last token is op against the lookahead
\* la: reduce when the rule binds tighter than la, or as tight and op is
\* left-associative, or when la has no precedence; shift otherwise
ReduceBefore(op, la) ==
    \/ yyPrec(la) = "none"
    \/ yyPrec(op) = "level2" /\ yyPrec(la) = "level1"
    \/ yyPrec(op) = yyPrec(la) /\ yyAssoc(op) = "left"

RECURSIVE yyReduce(_, _)
\* the reductions of yyParse on the stack S before the lookahead la is
\* shifted, with the semantic actions of rules.y; err is set when a
\* semantic action called yylex.Error and returned
yyReduce(S, la) ==
    LET n == Len(S)
        v(k) == S[n - k].val
        ok(T) == [S |-> T, err |-> ""]
    IN CASE Top(S, 1) = <<"QUOTE">> ->
              yyReduce(Reduced(S, 1, "string", Unquote(v(0))), la)
         [] Top(S, 3) = <<"IDENTIFIER", "TILDE", "string">> ->
              IF regexpCompileFails(v(0))
              THEN [S |-> S, err |-> "malformed regex"]
              ELSE IF UnknownField(GoString(v(2)))
              THEN [S |-> S, err |-> "unknown field"]
              ELSE yyReduce(Reduced(S, 3, "comparison",
                                    Re(GoString(v(2)), GoString(v(0)))), la)
         [] Top(S, 3) = <<"IDENTIFIER", "EQUALS", "string">> ->
              IF UnknownField(GoString(v(2)))
              THEN [S |-> S, err |-> "unknown field"]
              ELSE yyReduce(Reduced(S, 3, "comparison",
                                    Eq(GoString(v(2)), GoString(v(0)))), la)
         [] Top(S, 1) = <<"comparison">> ->
              yyReduce(Reduced(S, 1, "condition", v(0)), la)
         [] Top(S, 2) = <<"NOT", "condition">> /\ ReduceBefore("NOT", la) ->
              yyReduce(Reduced(S, 2, "condition", Not(v(0))), la)
         [] /\ Top(S, 3) = <<"condition", "AND", "condition">>
            /\ ReduceBefore("AND", la) ->
              yyReduce(Reduced(S, 3, "condition", And(v(2), v(0))), la)
         [] /\ Top(S, 3) = <<"condition", "OR", "condition">>
            /\ ReduceBefore("OR", la) ->
              yyReduce(Reduced(S, 3, "condition", Or(v(2), v(0))), la)
         [] Top(S, 3) = <<"LPAREN", "condition", "RPAREN">> ->
              yyReduce(Reduced(S, 3, "condition", v(1)), la)
         [] Top(S, 2) = <<"MOVE", "string">> ->
              yyReduce(Reduced(S, 2, "move",
                               NewMoveRule(NilPredicate, GoString(v(0)))), la)
         [] Top(S, 1) = <<"FLAG">> /\ la # "QUOTE" ->
              yyReduce(Reduced(S, 1, "flag", NewFlagRule(NilPredicate, "")), la)
         [] Top(S, 2) = <<"FLAG", "string">> ->
              yyReduce(Reduced(S, 2, "flag",
                               NewFlagRule(NilPredicate, GoString(v(0)))), la)
         [] Top(S, 1) = <<"UNFLAG">> /\ la # "QUOTE" ->
              yyReduce(Reduced(S, 1, "unflag", NewUnflagRule(NilPredicate, "")), la)
         [] Top(S, 2) = <<"UNFLAG", "string">> ->
              yyReduce(Reduced(S, 2, "unflag",
                               NewUnflagRule(NilPredicate, GoString(v(0)))), la)
         [] Top(S, 2) = <<"STREAM", "string">> ->
              yyReduce(Reduced(S, 2, "stream",
                               NewStreamRule_Command(NilPredicate, GoString(v(0)))), la)
         [] /\ n >= 4
            /\ Top(S, 4)[1] = "IF" /\ Top(S, 4)[2] = "condition"
            /\ Top(S, 4)[3] = "THEN"
            /\ Top(S, 4)[4] \in {"move", "flag", "unflag", "stream"} ->
              yyReduce(Reduced(S, 4, "rule", [v(0) EXCEPT !.Predicate = v(2)]), la)
         [] Top(S, 3) = <<"rules", "rule", "SEMICOLON">> ->
              yyReduce(Reduced(S, 3, "rules", Append(v(2), v(1))), la)
         [] n = 2 /\ Top(S, 2) = <<"rule", "SEMICOLON">> ->
              yyReduce(Reduced(S, 2, "rules", <<v(1)>>), la)
         [] OTHER -> ok(S)

\* the tokens the parser shifts (or, for $end, accepts) on the reduced
\* stack S
Expected(S) ==
    LET top == IF S = <<>> THEN "" ELSE S[Len(S)].sym
        below == IF Len(S) < 2 THEN "" ELSE S[Len(S) - 1].sym
    IN CASE top = "" -> {"IF"}
         [] top = "rules" -> {"IF", "$end"}
         [] top \in {"IF", "NOT", "LPAREN", "AND", "OR"} ->
              {"IDENTIFIER", "NOT", "LPAREN"}
         [] top = "IDENTIFIER" -> {"TILDE", "EQUALS"}
         [] top \in {"TILDE", "EQUALS", "MOVE", "STREAM", "FLAG", "UNFLAG"} ->
              {"QUOTE"}
         [] top = "condition" /\ below = "IF" -> {"THEN", "AND", "OR"}
         [] top = "condition" /\ below = "LPAREN" -> {"RPAREN", "AND", "OR"}
         [] top = "condition" /\ below \in {"AND", "OR", "NOT"} -> {"AND", "OR"}
         [] top = "THEN" -> {"MOVE", "FLAG", "UNFLAG", "STREAM"}
         [] top = "rule" -> {"SEMICOLON"}
         [] OTHER -> {}

(***************************************************************************)
(* Rule texts Parse is run on: every concatenation of at most MaxPieces    *)
(* of the pieces below.                                                    *)
(***************************************************************************)
\* if to="a" then flag;\n
TextFlag ==
    <<"i", "f", " ", "t", "o", "=", "\"", "a", "\"", " ", "t", "h", "e",
      "n", " ", "f", "l", "a", "g", ";", "\n">>

\* if not(from~"b" or subject="a\"")and to="a" then move "x";\n
TextMove ==
    <<"i", "f", " ", "n", "o", "t", "(", "f", "r", "o", "m", "~", "\"",
      "b", "\"", " ", "o", "r", " ", "s", "u", "b", "j", "e", "c", "t",
      "=", "\"", "a", "\\", "\"", "\"", ")", "a", "n", "d", " ", "t", "o",
      "=", "\"", "a", "\"", " ", "t", "h", "e", "n", " ", "m", "o", "v",
      "e", " ", "\"", "x", "\"", ";", "\n">>

\* if to="a" or from="b" and not not subject~"(c)" then unflag "f";\n
TextUnflag ==
    <<"i", "f", " ", "t", "o", "=", "\"", "a", "\"", " ", "o", "r", " ",
      "f", "r", "o", "m", "=", "\"", "b", "\"", " ", "a", "n", "d", " ",
      "n", "o", "t", " ", "n", "o", "t", " ", "s", "u", "b", "j", "e", "c",
      "t", "~", "\"", "(", "c", ")", "\"", " ", "t", "h", "e", "n", " ",
      "u", "n", "f", "l", "a", "g", " ", "\"", "f", "\"", ";", "\n">>

\* if (to="a") then stream "u";
TextStream ==
    <<"i", "f", " ", "(", "t", "o", "=", "\"", "a", "\"", ")", " ", "t",
      "h", "e", "n", " ", "s", "t", "r", "e", "a", "m", " ", "\"", "u",
      "\"", ";">>

\* //c\n
TextComment ==
    <<"/", "/", "c", "\n">>

\* 7
TextNumber ==
    <<"7">>

\* + 
TextPlus ==
    <<"+", " ">>

\* "a
TextOpenQuote ==
    <<"\"", "a">>

\* if cc="a" then flag;
TextField ==
    <<"i", "f", " ", "c", "c", "=", "\"", "a", "\"", " ", "t", "h", "e",
      "n", " ", "f", "l", "a", "g", ";">>

\* if to~"(" then flag;
TextRegex ==
    <<"i", "f", " ", "t", "o", "~", "\"", "(", "\"", " ", "t", "h", "e",
      "n", " ", "f", "l", "a", "g", ";">>

\* then 
TextThen ==
    <<"t", "h", "e", "n", " ">>

\* @
TextAt ==
    <<"@">>

Pieces ==
    {TextFlag, TextMove, TextUnflag, TextStream, TextComment, TextNumber,
     TextPlus, TextOpenQuote, TextField, TextRegex, TextThen, TextAt}

RECURSIVE Texts(_)
\* the concatenations of at most n pieces
Texts(n) ==
    IF n = 0 THEN {<<>>}
    ELSE Texts(n - 1) \cup {t \o q : t \in Texts(n - 1), q \in Pieces}

\* a complete rule, a token of the lexer the grammar has no name for, and
\* a malformed rest
CutTexts ==
    {TextFlag \o j \o m : j \in {TextPlus, TextNumber},
                          m \in {TextOpenQuote, TextField, TextRegex, TextThen}}

(***************************************************************************)
(* Rule texts with one rule  if <condition> then flag;  whose condition    *)
(* combines comparisons on the three fields.                               *)
(***************************************************************************)
\* a comparison: its text and the predicate NewFieldPredicate builds for it
CmpTo == [text |-> <<"t", "o", "=", "\"", "a", "\"">>, pred |-> Eq("to", "a")]
CmpFrom == [text |-> <<"f", "r", "o", "m", "~", "\"", "b", "\"">>, pred |-> Re("from", "b")]
CmpSubject ==
    [text |-> <<"s", "u", "b", "j", "e", "c", "t", "=", "\"", "c", "\"">>,
     pred |-> Eq("subject", "c")]

Comparisons == {CmpTo, CmpFrom, CmpSubject}

WordOr == <<" ", "o", "r", " ">>
WordAnd == <<" ", "a", "n", "d", " ">>
WordNot == <<"n", "o", "t", " ">>

\* if <cond> then flag;
CondRule(cond) ==
    <<"i", "f", " ">> \o cond
    \o <<" ", "t", "h", "e", "n", " ", "f", "l", "a", "g", ";">>

\* if A or B and C then flag;
TextOrAnd(A, B, C) == CondRule(A.text \o WordOr \o B.text \o WordAnd \o C.text)

\* if A and B or C then flag;
TextAndOr(A, B, C) == CondRule(A.text \o WordAnd \o B.text \o WordOr \o C.text)

\* if A or (B and C) then flag;
TextOrParenAnd(A, B, C) ==
    CondRule(A.text \o WordOr \o <<"(">> \o B.text \o WordAnd \o C.text \o <<")">>)

\* if A and (B or C) then flag;
TextAndParenOr(A, B, C) ==
    CondRule(A.text \o WordAnd \o <<"(">> \o B.text \o WordOr \o C.text \o <<")">>)

\* if not A and B then flag;
TextNotAnd(A, B) == CondRule(WordNot \o A.text \o WordAnd \o B.text)

\* if not A or B then flag;
TextNotOr(A, B) == CondRule(WordNot \o A.text \o WordOr \o B.text)

\* if not not A then flag;
TextNotNot(A) == CondRule(WordNot \o WordNot \o A.text)

CondTexts ==
    UNION {{TextOrAnd(A, B, C), TextAndOr(A, B, C), TextOrParenAnd(A, B, C),
            TextAndParenOr(A, B, C), TextNotAnd(A, B), TextNotOr(A, B),
            TextNotNot(A)} :
           A \in Comparisons, B \in Comparisons, C \in Comparisons}

MaxQuote == 3

\* the runes that matter to scanQuote: the quote, the backslash, a rune that
\* is neither, and the byte 0
QuoteRunes == {"\"", "\\", "a", RuneNUL}

\* an opening quote followed by at most n of these runes
QuoteTexts(n) == {<<"\"">> \o s : s \in UNION {[1..k -> QuoteRunes] : k \in 0..n}}

(***************************************************************************)
(* Rule texts with one rule  if to="a" then <flag or unflag> <string>;     *)
(***************************************************************************)
WordFlag == <<"f", "l", "a", "g">>

WordUnflag == <<"u", "n", "f", "l", "a", "g">>

\* what may follow the action word: its text, and the string it writes
\* (written is FALSE when no string follows)
FlagArgs ==
    { [text |-> <<>>, written |-> FALSE, name |-> ""],
      [text |-> <<" ", "\"", "\"">>, written |-> TRUE, name |-> ""],
      [text |-> <<" ", "\"", "f", "\"">>, written |-> TRUE, name |-> "f"],
      [text |-> <<" ", "\"", "M", "y", " ", "F", "l", "a", "g", "\"">>, written |-> TRUE, name |-> "My Flag"],
      [text |-> <<" ", "\"", "a", "\\", "\"", "b", "\\", "\\", "\"">>, written |-> TRUE, name |-> "a\"b\\"] }

\* if to="a" then <word><arg>;
ActionRule(word, arg) ==
    <<"i", "f", " ", "t", "o", "=", "\"", "a", "\"", " ", "t", "h", "e", "n", " ">> \o word \o arg \o <<";">>

FlagTexts == {ActionRule(w, a.text) : w \in {WordFlag, WordUnflag}, a \in FlagArgs}

Inputs ==
    Texts(MaxPieces) \cup CutTexts \cup CondTexts \cup QuoteTexts(MaxQuote)
       \cup FlagTexts


VARIABLES
    \* ---- mailbox server ----
    inbox,          \* UIDs now in INBOX
    srvFlags,       \* UID -> flags the server holds
    nextUid,        \* next UID the server hands out
    \* ---- rules (rules package) ----
    ruleMessages,   \* rule -> r.messages, the pending set
    ruleDone,       \* rule -> r.done (Stream rules)
    \* ---- main goroutine ----
    pc,             \* position of the orchestration task
    ruleIdx,        \* index of the range-over-rules loops
    curMsg,         \* msg of "for msg := range messages"
    \* ---- processMailbox: fetch goroutine and its channels ----
    fetchList,      \* UIDs UidFetch has still to send
    fetchPc,        \* fetch goroutine: "idle", "fetch", "send", "exit"
    fetchErr,       \* the error UidFetch returned (TRUE: non-nil)
    messages,       \* chan *imap.Message, buffered
    messagesClosed, \* close(messages) happened
    fetchDone,      \* chan error of processMailbox, capacity 1
    \* ---- StreamRule.Action ----
    streamQueue,    \* bodies the body fetch still delivers to the loop
    streamErr,      \* result of the body fetch
    \* ---- wait loop of main ----
    cUpdates,       \* c.Updates # nil
    updatesClosed,  \* close(updates) happened
    stopClosed,     \* close(stop) happened
    idleRunning,    \* c.Idle has not returned
    idleErr,        \* the error c.Idle returned (TRUE: non-nil)
    idleDone,       \* chan error of main, capacity 1
    \* ---- history (what happened in the current scan / run) ----
    scan,           \* number of the current scan
    fetched,        \* UIDs the fetch of the current scan sent, in order
    calls,          \* Message/Action calls of the current scan, in order
    added,          \* rule -> UIDs its Message added in the current scan
    requests,       \* mutation requests of the current scan, in order
    srvAtFetch,     \* UID -> flags the server held when this scan fetched it
    prevApplied,    \* rule -> UIDs whose add-flags the server applied last scan
    nowApplied,     \* rule -> UIDs whose add-flags the server applied this scan
    attempts,       \* rule -> UID -> action passes that fetched it for delivery
    bodyFetched,    \* rule -> UIDs its body fetch returned in the current scan
    deliveries,     \* handleMessage calls of the run, in order
    actionErrs,     \* rules whose Action returned an error in the current scan
    waits,          \* number of waits main has begun (subscriptions installed)
    stopCloses,     \* close(stop) calls of the current wait
    sawInbox,       \* a MailboxUpdate naming INBOX was received in this wait
    sender,         \* the client's notification sender: "idle", "send", ...
    update,         \* main's variable update: what it last received
    \* ---- parse.Parse (lexer, parser) ----
    lex,            \* the Lexer: buf, r, rpos, nextpos
    p,              \* the Parser: last, result, err
    yyS,            \* yyParse: the stack of grammar symbols with their values
    yychar,         \* yyParse: the lookahead token number Lex returned
    yylval,         \* yyParse: lval.Value of the lookahead
    parsePc,        \* position in Parse: "lex", "parse", "done", "returned"
    parseRet,       \* what Parser.Parse returned: rules and err
    returns,        \* what the earlier calls of Parse on this text returned
    \* ---- Predicate.MatchMessage on one message ----
    mMsg,           \* the message handed to MatchMessage
    mPred,          \* the predicate it is handed to
    mDone,          \* MatchMessage has returned
    mResult,        \* what it returned
    \* ---- StreamRule.handleMessage on one message ----
    hCall           \* the call: the rule's Content, what the message and the
                    \* sink do, whether it has returned, and its result

srvVars == <<inbox, srvFlags, nextUid>>
ruleVars == <<ruleMessages, ruleDone>>
mainVars == <<pc, ruleIdx, curMsg>>
fetchVars == <<fetchList, fetchPc, fetchErr, messages, messagesClosed, fetchDone>>
streamVars == <<streamQueue, streamErr>>
waitVars == <<cUpdates, updatesClosed, stopClosed, idleRunning, idleErr, idleDone>>
histVars == <<scan, fetched, calls, added, requests, srvAtFetch, prevApplied,
              nowApplied, attempts, bodyFetched, deliveries, actionErrs>>
loopHist == <<waits, stopCloses, sawInbox>>
notifyVars == <<sender, update>>
parseVars == <<lex, p, yyS, yychar, yylval, parsePc, parseRet, returns>>
matchVars == <<mMsg, mPred, mDone, mResult, hCall>>
vars == <<srvVars, ruleVars, mainVars, fetchVars, streamVars, waitVars, histVars,
          loopHist, notifyVars, parseVars, matchVars>>

\* what a receive from the closed updates channel yields, and the zero value
\* of an update variable
NilUpdate == [type |-> "nil", Mailbox |-> ""]

NoMsg == [Uid |-> 0, Flags |-> {}]

EmptySets == [i \in RuleIds |-> {}]

RECURSIVE SortedSeq(_)
\* a SeqSet's numbers in ascending order (the order the server answers in)
SortedSeq(S) ==
    IF S = {} THEN <<>>
    ELSE LET m == CHOOSE x \in S : \A y \in S : x <= y
         IN <<m>> \o SortedSeq(S \ {m})

\* the mailbox server holding the messages box; flags gives, for every
\* identifier it has handed out or will hand out, the flags of the message
MailboxInit(box, flags) ==
    /\ inbox = box
    /\ srvFlags = flags
    /\ srvAtFetch = [u \in DOMAIN flags |-> {}]
    /\ attempts = [i \in RuleIds |-> [u \in DOMAIN flags |-> 0]]

\* the rules and the goroutines before the first scan
RunInit ==
    /\ ruleMessages = EmptySets
    /\ ruleDone = EmptySets
    /\ ruleIdx = 1
    /\ curMsg = NoMsg
    /\ fetchList = <<>>
    /\ fetchPc = "idle"
    /\ fetchErr = FALSE
    /\ messages = <<>>
    /\ messagesClosed = FALSE
    /\ fetchDone = <<>>
    /\ streamQueue = <<>>
    /\ streamErr = FALSE
    /\ cUpdates = FALSE
    /\ updatesClosed = FALSE
    /\ stopClosed = FALSE
    /\ idleRunning = FALSE
    /\ idleErr = FALSE
    /\ idleDone = <<>>
    /\ scan = 0
    /\ fetched = <<>>
    /\ calls = <<>>
    /\ added = EmptySets
    /\ requests = <<>>
    /\ prevApplied = EmptySets
    /\ nowApplied = EmptySets
    /\ bodyFetched = EmptySets
    /\ deliveries = <<>>
    /\ actionErrs = {}
    /\ waits = 0
    /\ stopCloses = 0
    /\ sawInbox = FALSE
    /\ sender = "idle"
    /\ update = NilUpdate

\* the mailbox, the rules and the goroutines before the first scan
EngineInit ==
    /\ MailboxInit({1}, [u \in UIDs |-> InitialFlags(u)])
    /\ nextUid = 2
    /\ RunInit

\* no MatchMessage call is being followed
\* no handleMessage call is being followed
NoHandleCall ==
    [Content |-> "", prepare |-> "ok", doErr |-> FALSE, StatusCode |-> 0,
     returned |-> FALSE, err |-> NilErr]

NoMatchCall ==
    /\ mMsg = NoMsg
    /\ mPred = NilPredicate
    /\ mDone = FALSE
    /\ mResult = FALSE
    /\ hCall = NoHandleCall

\* main after parse.Parse returned the rule list, before the first scan
Init ==
    /\ EngineInit
    /\ NoMatchCall
    /\ pc = "process"
    /\ lex = NewLexer(<<>>)
    /\ p = NewParser
    /\ yyS = <<>>
    /\ yychar = -1
    /\ yylval = <<>>
    /\ parsePc = "returned"
    /\ parseRet = [rules |-> Rules, err |-> NilErr]
    /\ returns = <<>>

(***************************************************************************)
(* Rule.Message: whether r.messages.AddNum(msg.Uid) is called.             *)
(***************************************************************************)
\* MoveRule.Message
MoveRule_Message(r, msg) == MatchMessage(r.Predicate, msg)

\* FlagRule.Message without the loop over msg.Flags
FlagRule_Message_NoFlagCheck(r, msg) == MatchMessage(r.Predicate, msg)

\* FlagRule.Message
FlagRule_Message(r, msg) ==
    IF r.Flag \in msg.Flags THEN FALSE  \* already flagged
    ELSE MatchMessage(r.Predicate, msg)

\* UnflagRule.Message without the loop over msg.Flags
UnflagRule_Message_NoFlagCheck(r, msg) == MatchMessage(r.Predicate, msg)

\* UnflagRule.Message
UnflagRule_Message(r, msg) ==
    IF r.Flag \in msg.Flags THEN FALSE
    ELSE MatchMessage(r.Predicate, msg)

\* StreamRule.Message without the r.done.Contains check
StreamRule_Message_NoDoneCheck(r, msg, done) == MatchMessage(r.Predicate, msg)

\* StreamRule.Message
StreamRule_Message(r, msg, done) ==
    IF msg.Uid \in done THEN FALSE
    ELSE MatchMessage(r.Predicate, msg)

\* rule.Message(msg) of an engine in which the first rule whose predicate
\* holds of the message wins
Rule_Message_FirstMatchWins(i, msg) ==
    /\ \A j \in 1..(i - 1) : ~MatchMessage(Rules[j].Predicate, msg)
    /\ CASE Rules[i].kind = "move"   -> MoveRule_Message(Rules[i], msg)
          [] Rules[i].kind = "flag"   -> FlagRule_Message(Rules[i], msg)
          [] Rules[i].kind = "unflag" -> UnflagRule_Message(Rules[i], msg)
          [] Rules[i].kind = "stream" -> StreamRule_Message(Rules[i], msg, ruleDone[i])

\* rule.Message(msg), dispatched on the rule's variant
Rule_Message(i, msg) ==
    CASE Rules[i].kind = "move"   -> MoveRule_Message(Rules[i], msg)
      [] Rules[i].kind = "flag"   -> FlagRule_Message(Rules[i], msg)
      [] Rules[i].kind = "unflag" -> UnflagRule_Message(Rules[i], msg)
      [] Rules[i].kind = "stream" -> StreamRule_Message(Rules[i], msg, ruleDone[i])

(***************************************************************************)
(* Rule.Action of Move, Flag, Unflag: the requests sent to the client for  *)
(* the swapped-out set msgs.                                               *)
(***************************************************************************)
\* MoveRule.Action without the "if msgs.Empty() { return nil }" guard
MoveRule_Action_NoEmptyCheck(r, msgs) ==
    << [op |-> "move", arg |-> r.Mailbox, ids |-> msgs] >>

\* MoveRule.Action
MoveRule_Action(r, msgs) ==
    IF msgs = {} THEN <<>>
    ELSE << [op |-> "move", arg |-> r.Mailbox, ids |-> msgs] >>

\* FlagRule.Action
FlagRule_Action(r, msgs) ==
    IF msgs = {} THEN <<>>
    ELSE << [op |-> "addflags", arg |-> r.Flag, ids |-> msgs] >>

\* UnflagRule.Action
UnflagRule_Action(r, msgs) ==
    IF msgs = {} THEN <<>>
    ELSE << [op |-> "removeflags", arg |-> r.Flag, ids |-> msgs] >>

Rule_Action(i, msgs) ==
    CASE Rules[i].kind = "move"   -> MoveRule_Action(Rules[i], msgs)
      [] Rules[i].kind = "flag"   -> FlagRule_Action(Rules[i], msgs)
      [] Rules[i].kind = "unflag" -> UnflagRule_Action(Rules[i], msgs)

\* an Action that keeps the old set instead of installing a new one
SwappedMessages_Kept(msgs) == msgs

\* r.messages after "msgs := r.messages; r.messages = new(imap.SeqSet)"
SwappedMessages(msgs) == {}

\* StreamRule.Action without r.done.AddSet(msgs)
DoneAddSet_Forgotten(done, msgs) == done

\* r.done after r.done.AddSet(msgs)
DoneAddSet(done, msgs) == done \cup msgs

(***************************************************************************)
(* The server's answer to a request it accepts.                            *)
(***************************************************************************)
InboxAfter(reqs) ==
    IF reqs # <<>> /\ reqs[1].op = "move" THEN inbox \ reqs[1].ids ELSE inbox

FlagsAfter(reqs) ==
    IF reqs = <<>> THEN srvFlags
    ELSE [u \in DOMAIN srvFlags |->
            IF u \in reqs[1].ids /\ u \in inbox
            THEN CASE reqs[1].op = "addflags"    -> srvFlags[u] \cup {reqs[1].arg}
                   [] reqs[1].op = "removeflags" -> srvFlags[u] \ {reqs[1].arg}
                   [] OTHER                      -> srvFlags[u]
            ELSE srvFlags[u]]

\* processMailbox line 159: the items of the envelope fetch
EnvelopeFetchItems == {"UID", "ENVELOPE"}

\* StreamRule.Action line 416: the items of the body fetch
BodyFetchItems == {"UID", "BODY[]"}

\* msg.Flags of a fetched message: the server's flags when FLAGS was asked
\* for; otherwise empty, unless the server adds FLAGS to its answer unasked
FetchedFlags(uid) ==
    IF "FLAGS" \in EnvelopeFetchItems THEN { srvFlags[uid] }
    ELSE { {}, srvFlags[uid] }

\* message.Envelope of a message of the body fetch is non-nil
BodyHasEnvelope == "ENVELOPE" \in BodyFetchItems

(***************************************************************************)
(* processMailbox                                                          *)
(***************************************************************************)
\* lines 154-160: make the channels, start the fetch goroutine
ProcessMailboxStart ==
    /\ pc = "process"
    /\ scan < MaxScans
    /\ fetchList' = SortedSeq(inbox)
    /\ fetchPc' = "fetch"
    /\ fetchErr' = FALSE
    /\ messages' = <<>>
    /\ messagesClosed' = FALSE
    /\ fetchDone' = <<>>
    /\ pc' = "range"
    /\ scan' = scan + 1
    /\ fetched' = <<>>
    /\ calls' = <<>>
    /\ added' = EmptySets
    /\ bodyFetched' = EmptySets
    /\ requests' = <<>>
    /\ actionErrs' = {}
    /\ srvAtFetch' = [u \in DOMAIN srvFlags |-> {}]
    /\ prevApplied' = nowApplied
    /\ nowApplied' = EmptySets
    /\ UNCHANGED <<srvVars, ruleVars, ruleIdx, curMsg, streamVars, waitVars,
                   attempts, deliveries>>
    /\ UNCHANGED <<loopHist, notifyVars, parseVars, matchVars>>

\* a fetch goroutine that hands every message to the first rule itself
FetchTaskCalls_Message(uid) ==
    <<[call |-> "Message", rule |-> 1, uid |-> uid, flags |-> {}]>>

\* lines 158-160: the rule calls the fetch goroutine makes for a message it
\* fetched: none, it only runs c.UidFetch and sends the result on done
FetchTaskCalls(uid) == <<>>

\* c.UidFetch sends the next message on the channel
UidFetchSend ==
    /\ fetchPc = "fetch"
    /\ fetchList # <<>>
    /\ Len(messages) < ChanCap
    /\ LET uid == Head(fetchList) IN
         /\ fetchList' = Tail(fetchList)
         /\ IF uid \in inbox
            THEN \E fl \in FetchedFlags(uid) :
                   /\ messages' = Append(messages, [Uid |-> uid, Flags |-> fl])
                   /\ srvAtFetch' = [srvAtFetch EXCEPT ![uid] = srvFlags[uid]]
                   /\ fetched' = Append(fetched, uid)
            ELSE UNCHANGED <<messages, srvAtFetch, fetched>>
         /\ calls' = calls \o FetchTaskCalls(uid)
    /\ UNCHANGED <<srvVars, ruleVars, mainVars, fetchPc, fetchErr, messagesClosed,
                   fetchDone, streamVars, waitVars, scan, added, requests,
                   prevApplied, nowApplied, attempts, bodyFetched, deliveries,
                   actionErrs>>
    /\ UNCHANGED <<loopHist, notifyVars, parseVars, matchVars>>

\* c.UidFetch returns: the channel is closed; nil once everything was sent,
\* an error at any point
UidFetchReturn ==
    /\ fetchPc = "fetch"
    /\ \E err \in BOOLEAN :
         /\ (fetchList # <<>> => err)
         /\ fetchErr' = err
    /\ messagesClosed' = TRUE
    /\ fetchPc' = "send"
    /\ UNCHANGED <<srvVars, ruleVars, mainVars, fetchList, messages, fetchDone,
                   streamVars, waitVars, histVars>>
    /\ UNCHANGED <<loopHist, notifyVars, parseVars, matchVars>>

\* line 159: done <- (the result of UidFetch)
FetchDoneSend ==
    /\ fetchPc = "send"
    /\ fetchDone' = <<fetchErr>>
    /\ fetchPc' = "exit"
    /\ UNCHANGED <<srvVars, ruleVars, mainVars, fetchList, fetchErr, messages,
                   messagesClosed, streamVars, waitVars, histVars>>
    /\ UNCHANGED <<loopHist, notifyVars, parseVars, matchVars>>

\* line 163: for msg := range messages
RangeMessages ==
    /\ pc = "range"
    /\ messages # <<>>
    /\ curMsg' = Head(messages)
    /\ messages' = Tail(messages)
    /\ ruleIdx' = 1
    /\ pc' = "match"
    /\ UNCHANGED <<srvVars, ruleVars, fetchList, fetchPc, fetchErr, messagesClosed,
                   fetchDone, streamVars, waitVars, histVars>>
    /\ UNCHANGED <<loopHist, notifyVars, parseVars, matchVars>>

\* lines 164-166: rule.Message(msg) for the next rule
RuleMessage ==
    /\ pc = "match"
    /\ ruleIdx <= NRules
    /\ LET adds == Rule_Message(ruleIdx, curMsg) IN
         /\ ruleMessages' = [ruleMessages EXCEPT
                               ![ruleIdx] = IF adds THEN @ \cup {curMsg.Uid} ELSE @]
         /\ added' = [added EXCEPT
                               ![ruleIdx] = IF adds THEN @ \cup {curMsg.Uid} ELSE @]
    /\ calls' = Append(calls, [call |-> "Message", rule |-> ruleIdx,
                                uid |-> curMsg.Uid, flags |-> curMsg.Flags])
    /\ ruleIdx' = ruleIdx + 1
    /\ pc' = IF ruleIdx = NRules THEN "range" ELSE "match"
    /\ UNCHANGED <<srvVars, ruleDone, curMsg, fetchVars, streamVars, waitVars,
                   scan, fetched, requests, srvAtFetch, prevApplied, nowApplied,
                   attempts, bodyFetched, deliveries, actionErrs>>
    /\ UNCHANGED <<loopHist, notifyVars, parseVars, matchVars>>

\* a loop that stops as soon as the buffer is empty, closed or not
RangeDone_NoClose(ch, closed) == ch = <<>>

\* "for msg := range messages" ends when the channel is closed and drained
RangeDone(ch, closed) == ch = <<>> /\ closed

\* the range loop ends
RangeClosed ==
    /\ pc = "range"
    /\ RangeDone(messages, messagesClosed)
    /\ pc' = "action"
    /\ ruleIdx' = 1
    /\ UNCHANGED <<srvVars, ruleVars, curMsg, fetchVars, streamVars, waitVars,
                   histVars>>
    /\ UNCHANGED <<loopHist, notifyVars, parseVars, matchVars>>

\* log.Fatal instead of log.Println on an Action error
ActionErrPc_Fatal(err) == IF err THEN "exit" ELSE "action"

\* lines 171-174: where main goes after rule.Action returned err: an error
\* is logged and the loop over the rules goes on
ActionErrPc(err) == "action"

\* lines 170-175: rule.Action(c) of a Move, Flag or Unflag rule; the server
\* accepts the request (ok) or rejects it, and an error is only logged
RuleAction ==
    /\ pc = "action"
    /\ ruleIdx <= NRules
    /\ Rules[ruleIdx].kind # "stream"
    /\ LET reqs == Rule_Action(ruleIdx, ruleMessages[ruleIdx]) IN
       \E ok \in BOOLEAN :
         /\ (reqs = <<>> => ok)
         /\ ruleMessages' = [ruleMessages EXCEPT ![ruleIdx] = SwappedMessages(@)]
         /\ requests' = requests \o
               [k \in 1..Len(reqs) |-> [rule |-> ruleIdx, op |-> reqs[k].op,
                                        arg |-> reqs[k].arg, ids |-> reqs[k].ids,
                                        ok |-> ok]]
         /\ inbox' = IF ok THEN InboxAfter(reqs) ELSE inbox
         /\ srvFlags' = IF ok THEN FlagsAfter(reqs) ELSE srvFlags
         /\ nowApplied' = IF ok /\ reqs # <<>> /\ reqs[1].op = "addflags"
                          THEN [nowApplied EXCEPT ![ruleIdx] = reqs[1].ids \cap inbox]
                          ELSE nowApplied
         /\ actionErrs' = IF ok THEN actionErrs ELSE actionErrs \cup {ruleIdx}
         /\ pc' = ActionErrPc(~ok)
    /\ calls' = Append(calls, [call |-> "Action", rule |-> ruleIdx,
                                uid |-> 0, flags |-> {}])
    /\ ruleIdx' = ruleIdx + 1
    /\ UNCHANGED <<nextUid, ruleDone, curMsg, fetchVars, streamVars, waitVars,
                   scan, fetched, added, srvAtFetch, prevApplied, attempts,
                   bodyFetched, deliveries>>
    /\ UNCHANGED <<loopHist, notifyVars, parseVars, matchVars>>

(***************************************************************************)
(* StreamRule.Action                                                       *)
(***************************************************************************)
\* the messages the body fetch of a Stream action returns: those of msgs
\* the server still holds in INBOX, in ascending order
BodyFetchList(msgs) == SortedSeq(msgs \cap inbox)

\* lines 419-424, "for message := range messages" of StreamRule.Action
\* after handleMessage returned: the loop goes on with the next message
StreamQueueAfter(queue, err) == Tail(queue)

\* lines 421-423: an error of handleMessage is logged with
\* message.Envelope.Subject, which dereferences a nil Envelope (a panic that
\* nothing recovers) when the body fetch did not ask for the envelope
StreamLogPc(err) == IF err /\ ~BodyHasEnvelope THEN "panic" ELSE "stream"

\* lines 406-417: swap the pending set, add it to done, start the body fetch
StreamActionStart ==
    /\ pc = "action"
    /\ ruleIdx <= NRules
    /\ Rules[ruleIdx].kind = "stream"
    /\ LET msgs == ruleMessages[ruleIdx] IN
         /\ ruleMessages' = [ruleMessages EXCEPT ![ruleIdx] = SwappedMessages(@)]
         /\ ruleDone' = [ruleDone EXCEPT ![ruleIdx] = DoneAddSet(@, msgs)]
         /\ calls' = Append(calls, [call |-> "Action", rule |-> ruleIdx,
                                     uid |-> 0, flags |-> {}])
         /\ IF msgs = {}
            THEN /\ ruleIdx' = ruleIdx + 1
                 /\ UNCHANGED <<pc, streamVars, attempts, bodyFetched>>
            ELSE /\ pc' = "stream"
                 /\ attempts' = [attempts EXCEPT ![ruleIdx] =
                        [u \in DOMAIN @ |-> IF u \in msgs THEN @[u] + 1 ELSE @[u]]]
                 /\ \E k \in 0..Len(BodyFetchList(msgs)), err \in BOOLEAN :
                      /\ (k < Len(BodyFetchList(msgs)) => err)
                      /\ streamQueue' = SubSeq(BodyFetchList(msgs), 1, k)
                      /\ bodyFetched' = [bodyFetched EXCEPT ![ruleIdx] =
                            {BodyFetchList(msgs)[j] : j \in 1..k}]
                      /\ streamErr' = err
                 /\ UNCHANGED ruleIdx
    /\ UNCHANGED <<srvVars, curMsg, fetchVars, waitVars, scan, fetched, added,
                   requests, srvAtFetch, prevApplied, nowApplied, deliveries,
                   actionErrs>>
    /\ UNCHANGED <<loopHist, notifyVars, parseVars, matchVars>>

\* lines 419-424: handleMessage for the next message of the body fetch; it
\* returns nil (ok) or an error
StreamHandleMessage ==
    /\ pc = "stream"
    /\ streamQueue # <<>>
    /\ \E ok \in BOOLEAN :
         /\ deliveries' = Append(deliveries,
                [rule |-> ruleIdx, uid |-> Head(streamQueue), scan |-> scan,
                 ok |-> ok])
         /\ streamQueue' = StreamQueueAfter(streamQueue, ~ok)
         /\ pc' = StreamLogPc(~ok)
    /\ UNCHANGED <<srvVars, ruleVars, ruleIdx, curMsg, fetchVars, streamErr, waitVars,
                   scan, fetched, calls, added, requests, srvAtFetch, prevApplied,
                   nowApplied, attempts, bodyFetched, actionErrs>>
    /\ UNCHANGED <<loopHist, notifyVars, parseVars, matchVars>>

\* lines 426-430: the body fetch's result is read and returned
StreamActionReturn ==
    /\ pc = "stream"
    /\ streamQueue = <<>>
    /\ actionErrs' = IF streamErr THEN actionErrs \cup {ruleIdx} ELSE actionErrs
    /\ pc' = ActionErrPc(streamErr)
    /\ ruleIdx' = ruleIdx + 1
    /\ UNCHANGED <<srvVars, ruleVars, curMsg, fetchVars, streamVars, waitVars,
                   scan, fetched, calls, added, requests, srvAtFetch, prevApplied,
                   nowApplied, attempts, bodyFetched, deliveries>>
    /\ UNCHANGED <<loopHist, notifyVars, parseVars, matchVars>>

\* where main goes on when processMailbox is over (err: the fetch failed)
AfterScanPc_Rescan(err) == IF err THEN "exit" ELSE "process"

\* lines 111-113 and 177-179: log.Fatal on a fetch error, else the wait
AfterScanPc(err) == IF err THEN "exit" ELSE "listen"

\* a processMailbox that receives from done before it ranges over messages
\* done read as soon as the range over the messages is over
DoneReadAt_BeforeActions(pcv, idx) == pcv = "action"

DoneReadAt_BeforeRange(pcv, idx) == pcv \in {"range", "action"}

\* line 177: main receives from done once the loop over the rules' Actions
\* (lines 170-175) is over
DoneReadAt(pcv, idx) == pcv = "action" /\ idx > NRules

\* lines 177-179: if err := <-done; err != nil { log.Fatal(err) }
ProcessMailboxReturn ==
    /\ DoneReadAt(pc, ruleIdx)
    /\ fetchDone # <<>>
    /\ pc' = AfterScanPc(Head(fetchDone))
    /\ fetchDone' = <<>>
    /\ UNCHANGED <<srvVars, ruleVars, ruleIdx, curMsg, fetchList, fetchPc, fetchErr,
                   messages, messagesClosed, streamVars, waitVars, histVars>>
    /\ UNCHANGED <<loopHist, notifyVars, parseVars, matchVars>>

(***************************************************************************)
(* main: the wait for a change of the mailbox                              *)
(***************************************************************************)
\* the updates the client library may deliver while idling
Updates ==
    { [type |-> "MailboxUpdate", Mailbox |-> "INBOX"],
      [type |-> "MailboxUpdate", Mailbox |-> "Archive"],
      [type |-> "MessageUpdate", Mailbox |-> ""] }

\* the update the client library makes of the server's word that a message
\* arrived in INBOX
InboxUpdate == [type |-> "MailboxUpdate", Mailbox |-> "INBOX"]

\* the sender is sending an update: any update ("send"), or the one for an
\* arrival in INBOX ("sendInbox")
Sending == {"send", "sendInbox"}

\* the updates a sender in state st may be sending
UpdatesSent(st) == IF st = "sendInbox" THEN {InboxUpdate} ELSE Updates

\* every mailbox update taken for a change of the watched mailbox
IsInboxUpdate_AnyMailbox(u) == u.type = "MailboxUpdate"

\* every update taken for a change of the mailbox
IsInboxUpdate_Any(u) == TRUE

\* lines 131-134: the update is a *client.MailboxUpdate naming the mailbox
IsInboxUpdate(u) == u.type = "MailboxUpdate" /\ u.Mailbox = mailbox

\* a relevant update taken for the end of the wait
AfterUpdatePc_Process(relevant) == IF relevant THEN "process" ELSE "select"

\* lines 127-141: after the switch on the update the inner for goes round
\* to the select again, whatever the update was
AfterUpdatePc(relevant) == "select"

\* line 123: what c.Idle may return while stop is closed or not; main takes
\* any result (lines 142-146), so none is ruled out
IdleMayReturn(err, stopped) == TRUE

\* lines 116-124: install the updates channel, start the idle goroutine. A
\* sender still blocked on the channel of the wait before stays blocked on
\* that channel, which nobody receives from any more
Listen ==
    /\ pc = "listen"
    /\ cUpdates' = TRUE
    /\ updatesClosed' = FALSE
    /\ stopClosed' = FALSE
    /\ idleRunning' = TRUE
    /\ idleErr' = FALSE
    /\ idleDone' = <<>>
    /\ pc' = "select"
    /\ waits' = waits + 1
    /\ stopCloses' = 0
    /\ sawInbox' = FALSE
    /\ sender' = CASE sender \in Sending /\ updatesClosed -> "sendClosed"
                   [] sender \in Sending -> "stuck"
                   [] OTHER -> sender
    /\ UNCHANGED <<srvVars, ruleVars, ruleIdx, curMsg, fetchVars, streamVars,
                   histVars, update>>
    /\ UNCHANGED <<parseVars, matchVars>>

\* lines 116-117, the client library's side: its reader finds c.Updates set
\* for an untagged response of the server and goes to send the update on it
\* (with c.Updates nil the update is dropped)
ClientNotify ==
    /\ pc \notin {"exit", "panic"}
    /\ sender = "idle"
    /\ cUpdates
    /\ sender' = "send"
    /\ UNCHANGED <<srvVars, ruleVars, mainVars, fetchVars, streamVars, waitVars,
                   histVars, loopHist, update>>
    /\ UNCHANGED <<parseVars, matchVars>>

\* lines 129-134: the select receives the update the sender is sending on
\* the unbuffered channel, and the type switch looks at it
UpdateReceived ==
    /\ pc = "select"
    /\ sender \in Sending
    /\ ~updatesClosed
    /\ \E u \in UpdatesSent(sender) :
         /\ update' = u
         /\ pc' = IF IsInboxUpdate(u) THEN "closeStop"
                  ELSE AfterUpdatePc(FALSE)
         /\ sawInbox' =
              (sawInbox \/ (u.type = "MailboxUpdate" /\ u.Mailbox = "INBOX"))
    /\ sender' = "idle"
    /\ UNCHANGED <<srvVars, ruleVars, ruleIdx, curMsg, fetchVars, streamVars,
                   waitVars, histVars, waits, stopCloses>>
    /\ UNCHANGED <<parseVars, matchVars>>

\* line 129 on the closed channel: the receive yields nil, no case of the
\* type switch matches
ClosedUpdateReceived ==
    /\ pc = "select"
    /\ updatesClosed
    /\ update' = NilUpdate
    /\ pc' = IF IsInboxUpdate(NilUpdate) THEN "closeStop"
             ELSE AfterUpdatePc(FALSE)
    /\ UNCHANGED <<srvVars, ruleVars, ruleIdx, curMsg, fetchVars, streamVars,
                   waitVars, histVars, loopHist, sender, parseVars,
                   matchVars>>

\* line 138: close(stop); closing a closed channel panics
CloseStop ==
    /\ pc = "closeStop"
    /\ stopCloses' = stopCloses + 1
    /\ IF stopClosed
       THEN /\ pc' = "panic"
            /\ UNCHANGED stopClosed
       ELSE /\ pc' = "closeUpdates"
            /\ stopClosed' = TRUE
    /\ UNCHANGED <<srvVars, ruleVars, ruleIdx, curMsg, fetchVars, streamVars,
                   cUpdates, updatesClosed, idleRunning, idleErr, idleDone,
                   histVars, waits, sawInbox, notifyVars, parseVars,
                   matchVars>>

\* line 139: close(updates)
CloseUpdates ==
    /\ pc = "closeUpdates"
    /\ IF updatesClosed
       THEN /\ pc' = "panic"
            /\ UNCHANGED updatesClosed
       ELSE /\ pc' = "clearUpdates"
            /\ updatesClosed' = TRUE
    /\ UNCHANGED <<srvVars, ruleVars, ruleIdx, curMsg, fetchVars, streamVars,
                   cUpdates, stopClosed, idleRunning, idleErr, idleDone,
                   histVars, loopHist, notifyVars, parseVars, matchVars>>

\* line 140: c.Updates = nil, and round to the select
ClearUpdates ==
    /\ pc = "clearUpdates"
    /\ cUpdates' = FALSE
    /\ pc' = AfterUpdatePc(TRUE)
    /\ UNCHANGED <<srvVars, ruleVars, ruleIdx, curMsg, fetchVars, streamVars,
                   updatesClosed, stopClosed, idleRunning, idleErr, idleDone,
                   histVars, loopHist, notifyVars, parseVars, matchVars>>

\* the sender's channel is closed
SendingOnClosed ==
    \/ sender = "sendClosed"
    \/ sender \in Sending /\ updatesClosed

\* line 139 against the sender: a send on a closed channel, and a send that
\* was blocked when the channel was closed, panic; the panic of a goroutine
\* ends the process
SendOnClosed ==
    /\ pc \notin {"exit", "panic"}
    /\ SendingOnClosed
    /\ sender' = "panic"
    /\ pc' = "panic"
    /\ UNCHANGED <<srvVars, ruleVars, ruleIdx, curMsg, fetchVars, streamVars,
                   waitVars, histVars, loopHist, update, parseVars,
                   matchVars>>

\* line 123: c.Idle returns, nil or an error, and the result is sent on
\* done
IdleReturn ==
    /\ idleRunning
    /\ \E err \in BOOLEAN :
         /\ IdleMayReturn(err, stopClosed)
         /\ idleErr' = err
         /\ idleDone' = <<err>>
    /\ idleRunning' = FALSE
    /\ UNCHANGED <<srvVars, ruleVars, mainVars, fetchVars, streamVars, cUpdates,
                   updatesClosed, stopClosed, histVars>>
    /\ UNCHANGED <<loopHist, notifyVars, parseVars, matchVars>>

\* an idle error taken for the end of the wait
AfterDonePc_Ignored(err) == "process"

\* lines 143-146: log.Fatal on an idle error, else goto Process
AfterDonePc(err) == IF err THEN "exit" ELSE "process"

\* lines 142-146: the idle result is received; the select's variable update
\* is out of scope
DoneReceived ==
    /\ pc = "select"
    /\ idleDone # <<>>
    /\ pc' = AfterDonePc(Head(idleDone))
    /\ idleDone' = <<>>
    /\ update' = NilUpdate
    /\ UNCHANGED <<srvVars, ruleVars, ruleIdx, curMsg, fetchVars, streamVars,
                   cUpdates, updatesClosed, stopClosed, idleRunning, idleErr,
                   histVars>>
    /\ UNCHANGED <<loopHist, sender, parseVars, matchVars>>

(***************************************************************************)
(* The server: a new message arrives in INBOX.                             *)
(***************************************************************************)
\* lines 116-117 against an arrival: with c.Updates set the client's reader,
\* unless it is busy, goes to send the MailboxUpdate for INBOX; without a
\* subscription nothing is sent
NotifiedOnArrival(subscribed, st) ==
    IF subscribed /\ st = "idle" THEN "sendInbox" ELSE st

Arrive ==
    /\ pc \notin {"exit", "panic"}
    /\ nextUid <= MaxUid
    /\ inbox' = inbox \cup {nextUid}
    /\ nextUid' = nextUid + 1
    /\ sender' = NotifiedOnArrival(cUpdates, sender)
    /\ UNCHANGED <<srvFlags, ruleVars, mainVars, fetchVars, streamVars, waitVars,
                   histVars>>
    /\ UNCHANGED <<loopHist, update, parseVars, matchVars>>

Next ==
    \/ ProcessMailboxStart
    \/ UidFetchSend
    \/ UidFetchReturn
    \/ FetchDoneSend
    \/ RangeMessages
    \/ RuleMessage
    \/ RangeClosed
    \/ RuleAction
    \/ StreamActionStart
    \/ StreamHandleMessage
    \/ StreamActionReturn
    \/ ProcessMailboxReturn
    \/ Listen
    \/ ClientNotify
    \/ UpdateReceived
    \/ ClosedUpdateReceived
    \/ CloseStop
    \/ CloseUpdates
    \/ ClearUpdates
    \/ SendOnClosed
    \/ IdleReturn
    \/ DoneReceived
    \/ Arrive

Spec == Init /\ [][Next]_vars

\* the idle goroutine runs on and returns, and the select of main, which
\* picks among its ready cases at random, takes a result waiting on done
SpecLive ==
    /\ Spec
    /\ WF_vars(IdleReturn)
    /\ WF_vars(DoneReceived)
    /\ WF_vars(CloseStop)
    /\ WF_vars(CloseUpdates)
    /\ WF_vars(ClearUpdates)

\* the steps of main outside its select
MainStep ==
    \/ ProcessMailboxStart
    \/ RangeMessages
    \/ RuleMessage
    \/ RangeClosed
    \/ RuleAction
    \/ StreamActionStart
    \/ StreamHandleMessage
    \/ StreamActionReturn
    \/ ProcessMailboxReturn
    \/ Listen
    \/ CloseStop
    \/ CloseUpdates
    \/ ClearUpdates

\* the steps of the goroutine that runs c.UidFetch
FetchTaskStep == UidFetchSend \/ UidFetchReturn \/ FetchDoneSend

\* main and the fetch goroutine run on, the select of main takes a case
\* that stays ready, and the idle call returns once stop is closed; no
\* notification and no other return of the idle call is promised
SpecCover ==
    /\ Spec
    /\ WF_vars(MainStep)
    /\ WF_vars(FetchTaskStep)
    /\ WF_vars(UpdateReceived)
    /\ WF_vars(DoneReceived)
    /\ WF_vars(IdleReturn /\ stopClosed)

(***************************************************************************)
(* One scan of a mailbox that holds more messages than the channel of      *)
(* processMailbox has room for.                                            *)
(***************************************************************************)
MaxFetch == 11

\* main before the first scan, INBOX holding the messages 1..n, none of
\* them with a flag
InitFetch ==
    /\ \E n \in 0..MaxFetch :
          /\ MailboxInit(1..n, [u \in 1..n |-> {}])
          /\ nextUid = n + 1
    /\ RunInit
    /\ NoMatchCall
    /\ pc = "process"
    /\ lex = NewLexer(<<>>)
    /\ p = NewParser
    /\ yyS = <<>>
    /\ yychar = -1
    /\ yylval = <<>>
    /\ parsePc = "returned"
    /\ parseRet = [rules |-> Rules, err |-> NilErr]
    /\ returns = <<>>

\* processMailbox and the goroutines it starts
NextFetch ==
    \/ ProcessMailboxStart
    \/ UidFetchSend
    \/ UidFetchReturn
    \/ FetchDoneSend
    \/ RangeMessages
    \/ RuleMessage
    \/ RangeClosed
    \/ RuleAction
    \/ StreamActionStart
    \/ StreamHandleMessage
    \/ StreamActionReturn
    \/ ProcessMailboxReturn

\* main, once it ranges over the channel, goes on taking messages and
\* feeding them to the rules
SpecFetch ==
    InitFetch /\ [][NextFetch]_vars /\ WF_vars(RangeMessages) /\ WF_vars(RuleMessage)


(***************************************************************************)
(* parse.Parse on a rule text: NewLexer, NewParser, yyParse calling        *)
(* Parser.Lex for every token, Parser.Parse returning.                     *)
(***************************************************************************)
engineVars == <<srvVars, ruleVars, mainVars, fetchVars, streamVars, waitVars,
                histVars, loopHist, notifyVars>>

\* main before parse.Parse returns
InitParse ==
    /\ EngineInit
    /\ NoMatchCall
    /\ pc = "parse"
    /\ \E buf \in Inputs : lex = NewLexer(buf)
    /\ p = NewParser
    /\ yyS = <<>>
    /\ yychar = -1
    /\ yylval = <<>>
    /\ parsePc = "lex"
    /\ parseRet = [rules |-> <<>>, err |-> NilErr]
    /\ returns = <<>>

\* yyParse reads the lookahead: yylex.Lex(&yylval)
yyLex ==
    /\ parsePc = "lex"
    /\ LET r == Lex(p, lex, yylval)
       IN /\ p' = r.p
          /\ lex' = r.lex
          /\ yychar' = r.n
          /\ yylval' = r.lval
    /\ parsePc' = "parse"
    /\ UNCHANGED <<yyS, parseRet, engineVars, matchVars,
                   returns>>

\* yyParse reduces and shifts the lookahead
yyShift ==
    /\ parsePc = "parse"
    /\ LET la == yyTokname(yychar)
           red == yyReduce(yyS, la)
       IN /\ red.err = ""
          /\ la # "$end"
          /\ la \in Expected(red.S)
          /\ yyS' = Append(red.S, Sym(la, yylval))
    /\ parsePc' = "lex"
    /\ UNCHANGED <<lex, p, yychar, yylval, parseRet, engineVars, matchVars,
                   returns>>

\* a semantic action calls yylex.Error and returns: yyParse is over
yyAbort ==
    /\ parsePc = "parse"
    /\ LET red == yyReduce(yyS, yyTokname(yychar))
       IN /\ red.err # ""
          /\ p' = Error(p, red.err)
    /\ parsePc' = "done"
    /\ UNCHANGED <<lex, yyS, yychar, yylval, parseRet, engineVars, matchVars,
                   returns>>

\* the lookahead is no token the grammar allows here: yylex.Error("syntax
\* error"), and yyParse is over (the grammar has no error rule)
yySyntaxError ==
    /\ parsePc = "parse"
    /\ LET la == yyTokname(yychar)
           red == yyReduce(yyS, la)
       IN /\ red.err = ""
          /\ la \notin Expected(red.S)
          /\ p' = Error(p, "syntax error")
          /\ yyS' = red.S
    /\ parsePc' = "done"
    /\ UNCHANGED <<lex, yychar, yylval, parseRet, engineVars, matchVars,
                   returns>>

\* start: rules, at the end of the input: the semantic action stores the
\* rule list in the parser and yyParse is over
yyAccept ==
    /\ parsePc = "parse"
    /\ LET la == yyTokname(yychar)
           red == yyReduce(yyS, la)
       IN /\ red.err = ""
          /\ la = "$end"
          /\ la \in Expected(red.S)
          /\ p' = [p EXCEPT !.result = red.S[1].val]
          /\ yyS' = red.S
    /\ parsePc' = "done"
    /\ UNCHANGED <<lex, yychar, yylval, parseRet, engineVars, matchVars,
                   returns>>

\* Parser.Parse returns
Parser_Parse ==
    /\ parsePc = "done"
    /\ parseRet' = IF p.err # NilErr
                   THEN [rules |-> <<>>, err |-> p.err]
                   ELSE [rules |-> p.result, err |-> NilErr]
    /\ parsePc' = "returned"
    /\ UNCHANGED <<lex, p, yyS, yychar, yylval, engineVars, matchVars,
                   returns>>

NextParse ==
    \/ yyLex
    \/ yyShift
    \/ yyAbort
    \/ yySyntaxError
    \/ yyAccept
    \/ Parser_Parse

SpecParse == InitParse /\ [][NextParse]_vars

\* a Parse that goes on with the lexer of the call before
Parse_Lexer_Reused(buf, old) == old

\* Parse, lexer.go lines 330-339: lex := NewLexer(buf); old is the lexer the
\* call before left behind
Parse_Lexer(buf, old) == NewLexer(buf)

\* Parse is called once more with the same text
ParseAgain ==
    /\ parsePc = "returned"
    /\ returns = <<>>
    /\ returns' = <<parseRet>>
    /\ lex' = Parse_Lexer(lex.buf, lex)
    /\ p' = NewParser
    /\ yyS' = <<>>
    /\ yychar' = -1
    /\ yylval' = <<>>
    /\ parsePc' = "lex"
    /\ parseRet' = [rules |-> <<>>, err |-> NilErr]
    /\ UNCHANGED <<engineVars, matchVars>>

NextReparse ==
    \/ NextParse
    \/ ParseAgain

\* two calls of Parse, one after the other, on the same text
SpecReparse == InitParse /\ [][NextReparse]_vars

(***************************************************************************)
(* Predicate.MatchMessage on one message.  The strings of the envelope and *)
(* of the predicates are sequences of runes here, since the regular        *)
(* expression reads them rune by rune.                                     *)
(***************************************************************************)
MaxAddrs == 2

AddrVip == <<"v", "i", "p", "@", "e", "x", "a", "m", "p", "l", "e", ".", "c", "o", "m">>

AddrX == <<"x", "@", "e", "x", "a", "m", "p", "l", "e", ".", "c", "o", "m">>

AddrOrg == <<"x", "@", "e", "x", "a", "m", "p", "l", "e", ".", "o", "r", "g">>

SubjectDeal == <<"D", "e", "a", "l", "!">>

SubjectHello == <<"H", "e", "l", "l", "o">>

Addresses == {AddrVip, AddrX, AddrOrg}

\* the address lists of at most n addresses
AddrLists(n) == UNION {[1..k -> Addresses] : k \in 0..n}

\* to ~ "@example.com$"
ReToExample == Re("to", <<"@", "e", "x", "a", "m", "p", "l", "e", ".", "c", "o", "m", "$">>)

\* to ~ "@example.com$" and not to = "vip@example.com"
CondNotVip == And(ReToExample, Not(Eq("to", AddrVip)))

MatchPredicates ==
    { CondNotVip, ReToExample, Eq("to", AddrVip), Not(Eq("to", AddrVip)),
      Eq("from", AddrX), Re("from", <<"^", "x", "@">>),
      Eq("subject", SubjectHello), Re("subject", <<"^", "D", "e", "a", "l">>) }

\* a fetched message with its envelope
EnvelopeMessage(from, to, subject) ==
    [Uid |-> 1, Flags |-> {},
     Envelope |-> [From |-> from, To |-> to, Subject |-> subject]]

\* main is about to hand one fetched message to one predicate
InitMatch ==
    /\ EngineInit
    /\ pc = "match"
    /\ lex = NewLexer(<<>>)
    /\ p = NewParser
    /\ yyS = <<>>
    /\ yychar = -1
    /\ yylval = <<>>
    /\ parsePc = "returned"
    /\ parseRet = [rules |-> Rules, err |-> NilErr]
    /\ returns = <<>>
    /\ \E from \in AddrLists(MaxAddrs), to \in AddrLists(MaxAddrs),
          subject \in {SubjectDeal, SubjectHello} :
          mMsg = EnvelopeMessage(from, to, subject)
    /\ mPred \in MatchPredicates
    /\ mDone = FALSE
    /\ mResult = FALSE
    /\ hCall = NoHandleCall

\* r.Predicate.MatchMessage(msg)
Predicate_MatchMessage ==
    /\ ~mDone
    /\ mPred # NilPredicate
    /\ mResult' = MatchMessage(mPred, mMsg)
    /\ mDone' = TRUE
    /\ UNCHANGED <<mMsg, mPred, hCall, engineVars, parseVars>>

NextMatch == Predicate_MatchMessage

SpecMatch == InitMatch /\ [][NextMatch]_vars

(***************************************************************************)
(* StreamRule.handleMessage on one message: the delivery to the sink.      *)
(***************************************************************************)
\* the status codes the sink answers with
StatusCodes == {100, 199, 200, 201, 204, 299, 300, 301, 404, 500, 503}

\* the content kinds of a Stream rule
StreamContents == {"rfc822", "html"}

\* how far the preparation of the html request gets: all the way, or it
\* fails reading the message, finding its html part, parsing its date or
\* decoding its subject
Preparations == {"ok", "read", "html", "date", "subject"}

\* lines 458 and 495: resp.StatusCode < 200 && resp.StatusCode >= 300
StatusIsError(code) == code < 200 /\ code >= 300

\* lines 450-460 and 487-497: the request is sent and the answer looked at
PostToSink(doErr, code) ==
    CASE doErr -> <<"stream messages to", "do http request">>
      [] StatusIsError(code) -> <<"stream messages to", "error response", code>>
      [] OTHER -> NilErr

\* lines 432-499: what handleMessage returns
handleMessage(content, prepare, doErr, code) ==
    CASE content = "rfc822" -> PostToSink(doErr, code)
      [] content = "html" ->
           CASE prepare = "read" -> <<"parse message">>
             [] prepare = "html" -> <<"html of message">>
             [] prepare = "date" -> <<"parse date of message">>
             [] prepare = "subject" -> <<"decode subject of message">>
             [] OTHER -> PostToSink(doErr, code)
      [] OTHER -> NilErr

InitHandle ==
    /\ EngineInit
    /\ pc = "stream"
    /\ lex = NewLexer(<<>>)
    /\ p = NewParser
    /\ yyS = <<>>
    /\ yychar = -1
    /\ yylval = <<>>
    /\ parsePc = "returned"
    /\ parseRet = [rules |-> Rules, err |-> NilErr]
    /\ returns = <<>>
    /\ mMsg = NoMsg
    /\ mPred = NilPredicate
    /\ mDone = FALSE
    /\ mResult = FALSE
    /\ \E content \in StreamContents, prepare \in Preparations,
          doErr \in BOOLEAN, code \in StatusCodes :
          hCall = [Content |-> content, prepare |-> prepare, doErr |-> doErr,
                   StatusCode |-> code, returned |-> FALSE, err |-> NilErr]

\* r.handleMessage(ctx, message)
StreamRule_handleMessage ==
    /\ hCall.Content \in StreamContents
    /\ ~hCall.returned
    /\ hCall' = [hCall EXCEPT
                   !.returned = TRUE,
                   !.err = handleMessage(hCall.Content, hCall.prepare,
                                         hCall.doErr, hCall.StatusCode)]
    /\ UNCHANGED <<mMsg, mPred, mDone, mResult, engineVars, parseVars>>

NextHandle == StreamRule_handleMessage

SpecHandle == InitHandle /\ [][NextHandle]_vars


(***************************************************************************)
(* Properties of the batching engine.                                      *)
(***************************************************************************)
\* rule i's Action was invoked in the current scan
ActionRan(i) == \E k \in 1..Len(calls) : calls[k].call = "Action" /\ calls[k].rule = i

\* the requests rule i issued in the current scan
ReqsOf(i) == SelectSeq(requests, LAMBDA q : q.rule = i)

\* the UIDs fed to rule i's Message in the current scan
Fed(i) == {calls[k].uid : k \in {j \in 1..Len(calls) :
                                   calls[j].call = "Message" /\ calls[j].rule = i}}

\* the Message calls of the current scan
NMessageCalls == Cardinality({k \in 1..Len(calls) : calls[k].call = "Message"})

\* the action phase of the current scan is over
ScanOver == scan > 0 /\ pc \in {"listen", "select", "process", "exit"}

MutationRules == {i \in RuleIds : Rules[i].kind \in {"move", "flag", "unflag"}}

\* the one request a Move, Flag or Unflag rule issues for the set ids
ExpectedRequest(i, ids) ==
    CASE Rules[i].kind = "move" ->
           [rule |-> i, op |-> "move", arg |-> Rules[i].Mailbox, ids |-> ids]
      [] Rules[i].kind = "flag" ->
           [rule |-> i, op |-> "addflags", arg |-> Rules[i].Flag, ids |-> ids]
      [] Rules[i].kind = "unflag" ->
           [rule |-> i, op |-> "removeflags", arg |-> Rules[i].Flag, ids |-> ids]

WithoutOk(q) == [rule |-> q.rule, op |-> q.op, arg |-> q.arg, ids |-> q.ids]

\* C1: in every scan a Move, Flag or Unflag rule whose Message added at
\* least one identifier issues, in its Action, exactly one request (move to
\* its mailbox, add-flags or remove-flags with its flag) naming exactly the
\* identifiers added in this scan, and issues none when nothing was added;
\* a Move rule's request names exactly the fetched messages that satisfy
\* its predicate.
C1_OneBatchedRequest ==
    \A i \in MutationRules :
        /\ ~ActionRan(i) => ReqsOf(i) = <<>>
        /\ ActionRan(i) /\ added[i] = {} => ReqsOf(i) = <<>>
        /\ ActionRan(i) /\ added[i] # {} =>
              /\ Len(ReqsOf(i)) = 1
              /\ WithoutOk(ReqsOf(i)[1]) = ExpectedRequest(i, added[i])
        /\ Rules[i].kind = "move" =>
              added[i] = {u \in Fed(i) : MatchMessage(Rules[i].Predicate, [Uid |-> u])}

\* a scan in which the Move rule, fed messages 1 and 2, issued its request
\* for message 2 and a rule with nothing added issued none
C1_Witness ==
    /\ \E k \in 1..Len(requests) :
         /\ requests[k].op = "move"
         /\ requests[k].ids = {2}
         /\ 1 \in Fed(requests[k].rule)
    /\ \E i \in MutationRules : ActionRan(i) /\ added[i] = {} /\ Fed(i) # {}

\* C2: within one scan every fetched message is offered to every rule in
\* declaration order before the next message is offered to any rule, no
\* Action is invoked before the stream of fetched messages is closed and
\* drained, and then every rule's Action is invoked exactly once, in
\* declaration order.
C2_MatchThenActOrder ==
    /\ \A k \in 1..Len(calls) :
         IF k <= NMessageCalls
         THEN /\ calls[k].call = "Message"
              /\ calls[k].rule = ((k - 1) % NRules) + 1
              /\ (k - 1) \div NRules + 1 <= Len(fetched)
              /\ calls[k].uid = fetched[(k - 1) \div NRules + 1]
         ELSE /\ calls[k].call = "Action"
              /\ calls[k].rule = k - NMessageCalls
              /\ NMessageCalls = NRules * Len(fetched)
              /\ messagesClosed
              /\ messages = <<>>
    /\ Len(calls) <= NMessageCalls + NRules
    /\ ScanOver => Len(calls) = NRules * Len(fetched) + NRules

\* a finished scan that fetched two messages
C2_Witness == ScanOver /\ Len(fetched) = 2 /\ pc = "listen"

\* C3: when the Action of a rule returns an error, the Action of every
\* other rule is still invoked in that scan and issues the request it would
\* have issued otherwise, and neither the scan nor the loop stops: the
\* process exits only on a fetch or idle error.
C3_ActionErrorIsolated ==
    /\ actionErrs # {} /\ ScanOver =>
         \A b \in RuleIds :
            /\ ActionRan(b)
            /\ b \in MutationRules /\ added[b] # {} =>
                  /\ Len(ReqsOf(b)) = 1
                  /\ WithoutOk(ReqsOf(b)[1]) = ExpectedRequest(b, added[b])
            /\ Rules[b].kind = "stream" /\ added[b] # {} => bodyFetched[b] \subseteq added[b]
    /\ actionErrs # {} /\ pc = "action" => ruleIdx > NRules \/ ~ActionRan(ruleIdx)
    /\ pc = "exit" => fetchErr \/ idleErr

\* the first rule's request was rejected, a later rule's request went
\* through, and the loop went on to wait for the next change
C3_Witness ==
    /\ pc = "select"
    /\ 1 \in actionErrs
    /\ \A b \in RuleIds : ActionRan(b)
    /\ \E k \in 1..Len(requests) : requests[k].rule > 1 /\ requests[k].ok

\* the Message calls of Flag rule i in the current scan for messages whose
\* flag list holds the rule's flag
FlaggedCalls(i) ==
    {k \in 1..Len(calls) : /\ calls[k].call = "Message"
                           /\ calls[k].rule = i
                           /\ Rules[i].Flag \in calls[k].flags}

\* C4: a Flag rule never adds to its pending set a message whose flag list
\* holds the rule's flag, whatever its predicate says, so no add-flags
\* request names such a message.
C4_FlagRuleSkipsFlagged ==
    \A i \in {j \in RuleIds : Rules[j].kind = "flag"} :
       \A k \in FlaggedCalls(i) :
          /\ calls[k].uid \notin ruleMessages[i]
          /\ calls[k].uid \notin added[i]
          /\ \A n \in 1..Len(requests) :
                requests[n].rule = i => calls[k].uid \notin requests[n].ids

\* a message that satisfies the Flag rule's predicate and carries its flag
\* was fed to the rule, and the rule's Action has run
C4_Witness ==
    \E i \in {j \in RuleIds : Rules[j].kind = "flag"} :
       /\ ActionRan(i)
       /\ \E k \in FlaggedCalls(i) :
             MatchMessage(Rules[i].Predicate, [Uid |-> calls[k].uid])

\* C5: when a message matched a Flag rule in one scan and the server applied
\* the flag, the next scan (which fetches the message with the flag set on
\* the server) issues no add-flags request naming that message.
C5_NoRepeatedFlagRequest ==
    \A n \in 1..Len(requests) :
       requests[n].op = "addflags" =>
          \A u \in requests[n].ids :
             ~(u \in prevApplied[requests[n].rule]
               /\ Rules[requests[n].rule].Flag \in srvAtFetch[u])

StreamRules == {i \in RuleIds : Rules[i].kind = "stream"}

\* C6: a Stream rule never adds to its pending set an identifier that is in
\* its done set, so each identifier is fetched for delivery by that rule in
\* at most one action pass of the run.
C6_StreamAtMostOnce ==
    \A i \in StreamRules :
       /\ ruleMessages[i] \cap ruleDone[i] = {}
       /\ \A u \in UIDs : attempts[i][u] <= 1

\* in a later scan a message of the done set that satisfies the predicate
\* was fed to the Stream rule again
C6_Witness ==
    \E i \in StreamRules :
       \E k \in 1..Len(calls) :
          /\ calls[k].call = "Message"
          /\ calls[k].rule = i
          /\ calls[k].uid \in ruleDone[i]
          /\ MatchMessage(Rules[i].Predicate, [Uid |-> calls[k].uid])
          /\ ActionRan(i)

\* the done set holds every identifier of this scan's action pass and every
\* identifier a delivery was attempted for
DoneHoldsPass ==
    \A i \in StreamRules :
       /\ ActionRan(i) => added[i] \subseteq ruleDone[i]
       /\ bodyFetched[i] \subseteq ruleDone[i]
       /\ \A k \in 1..Len(deliveries) :
             deliveries[k].rule = i => deliveries[k].uid \in ruleDone[i]

\* C7: a Stream rule's done set only grows, and every identifier of the
\* swapped-out pending set is in it before the body fetch or any delivery
\* of the pass, and stays in it when the body fetch or the delivery fails.
C7_DoneSetGrows ==
    [][ /\ \A i \in RuleIds : ruleDone[i] \subseteq ruleDone'[i]
        /\ DoneHoldsPass' ]_vars

\* a pass whose body fetch failed before it returned every message, after
\* which the loop went on
C7_Witness ==
    \E i \in StreamRules :
       /\ i \in actionErrs
       /\ pc = "select"
       /\ bodyFetched[i] # added[i]
       /\ added[i] \subseteq ruleDone[i]

\* handleMessage calls of rule i for message u in the run
DeliveriesOf(i, u) ==
    {k \in 1..Len(deliveries) : deliveries[k].rule = i /\ deliveries[k].uid = u}

\* C8: in a Stream rule's action pass a failed delivery does not stop the
\* pass: once the pass is over a delivery was attempted for every message
\* the body fetch returned; and no message is delivered twice, in this or a
\* later scan, whether its delivery failed or not.
C8_DeliveryFailureIsolated ==
    \A i \in StreamRules :
       /\ ActionRan(i) /\ ~(pc = "stream" /\ ruleIdx = i) =>
             \A u \in bodyFetched[i] :
                \E k \in DeliveriesOf(i, u) : deliveries[k].scan = scan
       /\ \A u \in UIDs : Cardinality(DeliveriesOf(i, u)) <= 1

\* the pending sets as the phases of a scan leave them
PendingPerPhase ==
    /\ pc = "process" \/ pc = "listen" \/ pc = "select" =>
          \A i \in RuleIds : ruleMessages[i] = {}
    /\ \A i \in RuleIds : ruleMessages[i] \subseteq added[i]
    /\ \A i \in RuleIds : ActionRan(i) => ruleMessages[i] = {}
    /\ \A n \in 1..Len(requests) : requests[n].ids \subseteq added[requests[n].rule]
    /\ \A i \in StreamRules : bodyFetched[i] \subseteq added[i]

\* a step that changes rule i's pending set is rule i's Message adding the
\* current message, or rule i's Action replacing the set by an empty one
PendingStep(i) ==
    ruleMessages'[i] # ruleMessages[i] =>
       \/ /\ pc = "match"
          /\ ruleIdx = i
          /\ ruleMessages'[i] = ruleMessages[i] \cup {curMsg.Uid}
       \/ /\ pc = "action"
          /\ ruleIdx = i
          /\ ruleMessages'[i] = {}

\* C9: a rule's pending set is changed only by the rule's own Message step
\* and is replaced by an empty set at the start of the rule's Action,
\* whether or not the Action succeeds; so every pending set is empty when a
\* scan starts, and a request of a scan names only identifiers matched in
\* that scan.
C9_PendingSwap ==
    [][ /\ \A i \in RuleIds : PendingStep(i)
        /\ PendingPerPhase' ]_vars

\* a second scan starts after a scan in which a request was rejected
C9_Witness ==
    /\ scan = 1
    /\ pc = "process"
    /\ actionErrs # {}
    /\ \E n \in 1..Len(requests) : ~requests[n].ok

(***************************************************************************)
(* Properties of the rule-file front end.                                  *)
(***************************************************************************)
\* Parse returned a rule list and no error
ParsedRules == parsePc = "returned" /\ parseRet.err = NilErr /\ parseRet.rules # <<>>

\* C10: Parse returns either an error and no rules, or the rule list for the
\* whole input text: when it returns a non-empty rule list without error,
\* the last token the parser took from the lexer is the EOF token of the
\* real end of the input, so that no token of the text was left unread (no
\* rule list is returned for a proper prefix of the input).
C10_WholeInputParsed ==
    /\ (parsePc = "returned" /\ parseRet.err # NilErr => parseRet.rules = <<>>)
    /\ (ParsedRules => p.last.Type = "TokenEOF" /\ lex.rpos = Len(lex.buf))

RECURSIVE Tokens(_)
\* the tokens NextToken returns from lexer state l on, up to the EOF or the
\* Error token, without the comments
Tokens(l) ==
    LET nt == NextToken(l)
    IN IF nt.tok.Type \in {"TokenEOF", "TokenError"} THEN <<nt.tok>>
       ELSE IF nt.tok.Type = "TokenComment" THEN Tokens(nt.lex)
       ELSE <<nt.tok>> \o Tokens(nt.lex)

\* the text holds a quoted string that is not closed: lexing it ends with
\* the Error token placed at the opening quote
UnterminatedQuote(buf) ==
    LET toks == Tokens(NewLexer(buf))
        last == toks[Len(toks)]
    IN /\ last.Type = "TokenError"
       /\ last.Position < Len(buf)
       /\ buf[last.Position + 1] = "\""

\* the text holds a comparison on a field other than to, from, subject
UnknownFieldComparison(buf) ==
    LET toks == Tokens(NewLexer(buf))
    IN \E i \in 1..(Len(toks) - 1) :
         /\ toks[i].Type = "TokenIdentifier"
         /\ toks[i + 1].Type \in {"TokenEquals", "TokenTilde"}
         /\ UnknownField(GoString(toks[i].Value))

\* the text holds a regex literal that does not compile
BadRegex(buf) ==
    LET toks == Tokens(NewLexer(buf))
    IN \E i \in 1..(Len(toks) - 1) :
         /\ toks[i].Type = "TokenTilde"
         /\ toks[i + 1].Type = "TokenQuote"
         /\ regexpCompileFails(Unquote(toks[i + 1].Value))

\* the text holds a 'then' that does not follow a condition, or an action
\* keyword that does not follow 'then'
KeywordOutOfOrder(buf) ==
    LET toks == Tokens(NewLexer(buf))
        before(i) == IF i = 1 THEN "" ELSE toks[i - 1].Type
    IN \E i \in 1..Len(toks) :
         \/ /\ toks[i].Type = "TokenThen"
            /\ before(i) \notin {"TokenQuote", "TokenRightParen"}
         \/ /\ toks[i].Type \in {"TokenMove", "TokenFlag", "TokenUnflag",
                                  "TokenStream"}
            /\ before(i) # "TokenThen"

Malformed(buf) ==
    \/ UnterminatedQuote(buf)
    \/ UnknownFieldComparison(buf)
    \/ BadRegex(buf)
    \/ KeywordOutOfOrder(buf)

\* C11: for every input that holds an unterminated quoted string, a
\* comparison on a field other than to/from/subject, a regex literal that
\* does not compile, or rule keywords in the wrong order, Parse returns a
\* non-nil error and no rule list.
C11_MalformedInputFails ==
    parsePc = "returned" /\ Malformed(lex.buf)
        => parseRet.err # NilErr /\ parseRet.rules = <<>>

\* Parse returned, without error, the one rule  if <pred> then flag
ParsedFlagRule(pred) ==
    /\ parseRet.err = NilErr
    /\ parseRet.rules = <<[NewFlagRule(NilPredicate, "") EXCEPT !.Predicate = pred]>>

\* C12: 'and' and 'or' have the same precedence and associate to the left:
\* for all comparisons A, B, C over valid fields 'A or B and C' parses to
\* And(Or(A,B),C) and 'A and B or C' to Or(And(A,B),C); parentheses override
\* this grouping.
C12_AndOrLeftAssociative ==
    parsePc = "returned" =>
        \A A \in Comparisons, B \in Comparisons, C \in Comparisons :
            /\ lex.buf = TextOrAnd(A, B, C)
                  => ParsedFlagRule(And(Or(A.pred, B.pred), C.pred))
            /\ lex.buf = TextAndOr(A, B, C)
                  => ParsedFlagRule(Or(And(A.pred, B.pred), C.pred))
            /\ lex.buf = TextOrParenAnd(A, B, C)
                  => ParsedFlagRule(Or(A.pred, And(B.pred, C.pred)))
            /\ lex.buf = TextAndParenOr(A, B, C)
                  => ParsedFlagRule(And(A.pred, Or(B.pred, C.pred)))

\* Parse returned the rule of  if to="a" or from~"b" and subject="c" then flag;
C12_Witness ==
    /\ parsePc = "returned"
    /\ lex.buf = TextOrAnd(CmpTo, CmpFrom, CmpSubject)
    /\ ParsedFlagRule(And(Or(CmpTo.pred, CmpFrom.pred), CmpSubject.pred))

\* C13: 'not' binds tighter than 'and'/'or' and is right-associative: for
\* all comparisons A, B 'not A and B' parses to And(Not(A),B), 'not A or B'
\* to Or(Not(A),B), and 'not not A' to Not(Not(A)).
C13_NotBindsTighter ==
    parsePc = "returned" =>
        \A A \in Comparisons, B \in Comparisons :
            /\ lex.buf = TextNotAnd(A, B)
                  => ParsedFlagRule(And(Not(A.pred), B.pred))
            /\ lex.buf = TextNotOr(A, B)
                  => ParsedFlagRule(Or(Not(A.pred), B.pred))
            /\ lex.buf = TextNotNot(A)
                  => ParsedFlagRule(Not(Not(A.pred)))

\* Parse returned the rule of  if not from~"b" and to="a" then flag;
C13_Witness ==
    /\ parsePc = "returned"
    /\ lex.buf = TextNotAnd(CmpFrom, CmpTo)
    /\ ParsedFlagRule(And(Not(CmpFrom.pred), CmpTo.pred))

(***************************************************************************)
(* Properties of the orchestration loop.                                   *)
(***************************************************************************)
\* main is inside processMailbox
ScanningPcs == {"range", "match", "action", "stream"}

\* the positions of main inside a wait: in its select, or handling a
\* relevant notification (lines 138-140)
WaitingPcs == {"select", "closeStop", "closeUpdates", "clearUpdates"}

\* C14: after startup the loop performs one full scan (match phase and
\* action phase) before it installs a subscription or starts the idle task,
\* without waiting for a notification; thereafter scans and waits strictly
\* alternate: the n-th wait begins after the n-th scan is over and the
\* (n+1)-th scan begins after the n-th wait.
C14_ScanFirstThenAlternate ==
    /\ scan = 0 => pc = "process" /\ waits = 0
    /\ waits = 0 => ~cUpdates /\ ~idleRunning /\ idleDone = <<>>
    /\ pc \in ScanningPcs => waits = scan - 1
    /\ pc = "listen" =>
          /\ waits = scan - 1
          /\ messagesClosed /\ messages = <<>>
          /\ \A i \in RuleIds : ActionRan(i)
    /\ pc \in WaitingPcs => waits = scan /\ waits > 0
    /\ pc = "process" => waits = scan

\* the second wait has begun after the second scan
C14_Witness == waits = 2 /\ scan = 2 /\ pc = "select"

\* C15: while main waits, the first notification that is a mailbox update
\* naming INBOX closes the stop signal and removes the subscription
\* (c.Updates is nil, the updates channel closed), no other notification
\* does, and once stop is closed and the idle call returns, main gets to
\* the start of a new scan (unless the idle call returned an error).
C15_InboxUpdateEndsWait ==
    /\ [](pc = "select" =>
            /\ sawInbox <=> stopClosed
            /\ sawInbox => ~cUpdates /\ updatesClosed
            /\ ~sawInbox => cUpdates /\ ~updatesClosed)
    /\ (pc = "select" /\ stopClosed) ~> (pc = "process" \/ idleErr)

\* C16: if the idle call returns a non-nil error, the process terminates
\* and no further scan, match or mailbox mutation is performed: from the
\* return of the error on main is in its wait or the process is over, no step
\* starts a scan, calls a rule, sends a request or a delivery or changes a
\* flag, and the process ends (by the log.Fatal of main, or sooner by a
\* panic).
C16_IdleErrorIsFatal ==
    /\ [](idleErr => pc \in WaitingPcs \cup {"exit", "panic"})
    /\ [][idleErr => /\ scan' = scan
                     /\ calls' = calls
                     /\ requests' = requests
                     /\ deliveries' = deliveries
                     /\ srvFlags' = srvFlags
                     /\ ruleVars' = ruleVars]_vars
    /\ (idleErr ~> pc \in {"exit", "panic"})

\* the process has exited on an idle error, after an INBOX notification
\* had ended the wait
C16_Witness == idleErr /\ pc = "exit" /\ sawInbox

\* C17: in every wait the stop channel handed to the idle task is closed at
\* most once, however many notifications are received before the idle task
\* returns: the count of close(stop) calls of a wait never exceeds one, it
\* is one exactly when stop is closed, and main never panics in its wait
\* (a panic of main only happens inside a scan).
C17_StopClosedOnce ==
    /\ stopCloses <= 1
    /\ pc \in {"listen", "select", "process"} /\ waits > 0
          => (stopClosed <=> stopCloses = 1)
    /\ pc = "panic" /\ sender # "panic" => scan > waits

\* stop is closed, the idle task has not yet returned and main goes on
\* receiving from the closed updates channel
C17_Witness ==
    /\ pc = "select"
    /\ stopCloses = 1
    /\ updatesClosed
    /\ idleRunning

\* C18: no two concurrent tasks access the same rule's pending set or done
\* set: every step that calls a rule's Message or Action, or changes a
\* pending or done set, is a step of main inside processMailbox, and is no
\* step of the fetch goroutine or of the idle goroutine (it leaves their
\* state alone); the idle goroutine is not even alive then.
C18_RuleStateOwnedByMain ==
    [][(Len(calls') > Len(calls) \/ ruleVars' # ruleVars) =>
          /\ pc \in ScanningPcs
          /\ ~idleRunning
          /\ <<fetchPc, fetchList, fetchErr, messagesClosed, fetchDone>>'
                = <<fetchPc, fetchList, fetchErr, messagesClosed, fetchDone>>
          /\ <<idleRunning, idleErr, idleDone>>'
                = <<idleRunning, idleErr, idleDone>>]_vars

\* main has called Message while the fetch goroutine still has a message
\* to send
C18_Witness ==
    /\ fetchPc = "fetch"
    /\ fetchList # <<>>
    /\ NMessageCalls > 0
    /\ pc = "match"

\* C19: a field predicate on "to" (on "from") holds of a message exactly when
\* some address of its To (From) list satisfies the string predicate, so it
\* is false for an empty list; on "subject" it is the string predicate applied
\* to the subject.  With to ~ "@example.com$" and not to = "vip@example.com",
\* a message to vip@example.com alone does not match, one to x@example.com
\* alone matches, one to both does not match.
C19_FieldPredicateAnyAddress ==
    mDone =>
      LET env == mMsg.Envelope IN
        /\ (mPred.t = "field" /\ mPred.Field = "to") =>
              /\ mResult <=> \E k \in 1..Len(env.To) :
                                MatchString(mPred.Predicate, env.To[k])
              /\ env.To = <<>> => ~mResult
        /\ (mPred.t = "field" /\ mPred.Field = "from") =>
              /\ mResult <=> \E k \in 1..Len(env.From) :
                                MatchString(mPred.Predicate, env.From[k])
              /\ env.From = <<>> => ~mResult
        /\ (mPred.t = "field" /\ mPred.Field = "subject") =>
              (mResult <=> MatchString(mPred.Predicate, env.Subject))
        /\ mPred = CondNotVip =>
              /\ env.To = <<AddrVip>> => ~mResult
              /\ env.To = <<AddrX>> => mResult
              /\ env.To \in {<<AddrVip, AddrX>>, <<AddrX, AddrVip>>} => ~mResult

C19_Witness ==
    /\ mDone
    /\ mPred = CondNotVip
    /\ mMsg.Envelope.To = <<AddrX, AddrVip>>
    /\ ~mResult


RECURSIVE ClosedQuote(_, _)
\* the text from rune i on (counted from 1) reaches an unescaped double
\* quote, every backslash before it being followed by a quote or a backslash
ClosedQuote(buf, i) ==
    IF i > Len(buf) THEN FALSE
    ELSE IF buf[i] = "\"" THEN TRUE
    ELSE IF buf[i] = "\\"
         THEN /\ i + 1 <= Len(buf)
              /\ buf[i + 1] \in {"\"", "\\"}
              /\ ClosedQuote(buf, i + 2)
    ELSE ClosedQuote(buf, i + 1)

\* C20: when the lexer stands at a double quote, NextToken returns a
\* quoted-string token only if the text has a later unescaped double quote
\* with every backslash before it followed by a quote or a backslash; when a
\* backslash is followed by another rune, or the text ends before the closing
\* quote, it returns an Error token.
C20_QuoteTokenOnlyWhenClosed ==
    [][(parsePc = "lex" /\ lex.r = "\"") =>
          /\ p'.last.Type = "TokenQuote" => ClosedQuote(lex.buf, lex.rpos + 2)
          /\ ~ClosedQuote(lex.buf, lex.rpos + 2) => p'.last.Type = "TokenError"]_vars


\* the lexer stands at the end of the text or at a rune that starts an
\* identifier, a quoted string, a // comment or one of the operators ~ = ; ( )
Recognized(l) ==
    \/ l.r = RuneEOF
    \/ isAlpha(l.r)
    \/ l.r = "\""
    \/ l.r = "/" /\ peekNextByte(l) = "/"
    \/ l.r \in {"~", "=", ";", "(", ")"}

RECURSIVE HasUnrecognized(_)
\* from lexer state l on, the text holds a rune outside strings and comments
\* that is neither whitespace nor recognized
HasUnrecognized(l) ==
    LET s == skipNontokens(l)
        nt == NextToken(l)
    IN IF s.r = RuneEOF THEN FALSE
       ELSE IF ~Recognized(s) THEN TRUE
       ELSE IF nt.tok.Type = "TokenError" THEN FALSE
       ELSE HasUnrecognized(nt.lex)

\* C21: for every rune that is not whitespace and starts neither an
\* identifier, a quoted string, a // comment nor one of the operators
\* ~ = ; ( ), NextToken returns an Error token; and Parse rejects a rule text
\* that holds such a rune outside a string or comment.
C21_UnrecognizedRuneIsError ==
    /\ [][(parsePc = "lex" /\ ~Recognized(skipNontokens(lex))) =>
             p'.last.Type = "TokenError"]_vars
    /\ [](parsePc = "returned" /\ HasUnrecognized(NewLexer(lex.buf)) =>
             parseRet.err # NilErr /\ parseRet.rules = <<>>)


Matched(i, u) ==
    \E k \in 1..Len(calls) :
       /\ calls[k].call = "Message"
       /\ calls[k].rule = i
       /\ calls[k].uid = u
       /\ MatchMessage(Rules[i].Predicate, [Uid |-> u])
       /\ Rules[i].kind \in {"flag", "unflag"} => Rules[i].Flag \notin calls[k].flags

\* C23: when two rules both match the same message in one scan, neither is
\* suppressed: both rules' mutation requests are issued in that scan, each
\* naming the message, the request of the rule declared first before the
\* request of the rule declared later.
C23_BothRulesAct ==
    ScanOver =>
       \A i \in MutationRules, j \in MutationRules, u \in UIDs :
          (i < j /\ Matched(i, u) /\ Matched(j, u)) =>
             \E n \in 1..Len(requests), m \in 1..Len(requests) :
                /\ n < m
                /\ requests[n].rule = i /\ u \in requests[n].ids
                /\ requests[m].rule = j /\ u \in requests[m].ids

\* a scan is over in which the Move rule and the Flag rule both matched
\* message 2
C23_Witness ==
    /\ ScanOver
    /\ \E i \in MutationRules, j \in MutationRules :
          /\ Rules[i].kind = "move" /\ Rules[j].kind = "flag"
          /\ Matched(i, 2) /\ Matched(j, 2)


\* the fetch goroutine has a message to send and the channel is full
FetchBlocked == fetchPc = "fetch" /\ fetchList # <<>> /\ Len(messages) = ChanCap

\* main has left the loop over the fetched messages of the current scan
PastRange == scan > 0 /\ pc \notin {"process", "range", "match"}

\* C24: the envelope fetch of a scan is a producer that runs concurrently
\* with the match phase through a buffer of capacity 10; the match phase
\* consumes every message the fetch produced (a producer blocked on the
\* full buffer is released), and the result of the fetch is read only after
\* the consumer has drained the stream.
C24_FetchDrainedBeforeDone ==
    /\ [](Len(messages) <= ChanCap)
    /\ [](FetchBlocked => pc \in {"range", "match"})
    /\ (FetchBlocked ~> ~FetchBlocked)
    /\ [](PastRange =>
            /\ messagesClosed /\ messages = <<>> /\ fetchPc # "fetch"
            /\ \A i \in RuleIds : Fed(i) = {fetched[k] : k \in 1..Len(fetched)})
    /\ [][fetchDone # <<>> /\ fetchDone' = <<>> =>
             messagesClosed /\ messages = <<>> /\ pc = "action"]_vars

\* the producer waits on the full buffer for main to take a message
C24_Witness == FetchBlocked /\ pc = "range" /\ Len(fetched) = ChanCap


C26_FlagNameDefault ==
    \A a \in FlagArgs :
       /\ (parsePc = "returned" /\ lex.buf = ActionRule(WordFlag, a.text)
              /\ (a.written => a.name # "")) =>
             /\ parseRet.err = NilErr
             /\ Len(parseRet.rules) = 1
             /\ parseRet.rules[1].kind = "flag"
             /\ parseRet.rules[1].Flag = IF a.written THEN a.name ELSE "\\Flagged"
       /\ (parsePc = "returned" /\ lex.buf = ActionRule(WordUnflag, a.text)
              /\ (a.written => a.name # "")) =>
             /\ parseRet.err = NilErr
             /\ Len(parseRet.rules) = 1
             /\ parseRet.rules[1].kind = "unflag"
             /\ parseRet.rules[1].Flag = IF a.written THEN a.name ELSE "\\Flagged"

\* "if to="a" then flag;" was parsed
C26_Witness ==
    /\ parsePc = "returned"
    /\ lex.buf = ActionRule(WordFlag, <<>>)
    /\ parseRet.err = NilErr
    /\ parseRet.rules[1].Flag = FlaggedFlag

\* a mailbox update naming the watched mailbox
Relevant(u) == u.type = "MailboxUpdate" /\ u.Mailbox = "INBOX"

\* C27: while main waits, a notification that is not a mailbox update
\* naming INBOX (an update for another mailbox, an update of another kind)
\* neither closes stop, nor removes the subscription, nor starts a scan: the
\* step that receives it leaves stop, the updates channel, c.Updates and the
\* scan count alone and main in its select; main is at lines 138-140 only
\* for a notification naming INBOX.
C27_OtherUpdateChangesNothing ==
    /\ [][(pc = "select" /\ sender \in Sending /\ sender' = "idle"
             /\ ~Relevant(update')) =>
            /\ pc' = "select"
            /\ <<stopClosed, stopCloses, cUpdates, updatesClosed>>'
                 = <<stopClosed, stopCloses, cUpdates, updatesClosed>>
            /\ <<idleRunning, idleDone, scan, waits>>'
                 = <<idleRunning, idleDone, scan, waits>>]_vars
    /\ [](pc \in WaitingPcs \ {"select"} => Relevant(update))

\* an update for another mailbox was received: main is in its select, stop
\* is open, the subscription is in place and the idle task runs on
C27_Witness ==
    /\ pc = "select"
    /\ update \in Updates /\ update.Mailbox = "Archive"
    /\ ~stopClosed /\ cUpdates /\ ~updatesClosed
    /\ idleRunning

\* C28: the fetch of a new scan is started only after the idle task of the
\* wait before it has returned and its result was received on done: main
\* leaves a wait only by the receive from done in its select (or by the end
\* of the process), a relevant notification takes it back to the select, and
\* while a scan runs no idle task is running and no result is waiting.
C28_ScanOnlyAfterIdleReturned ==
    /\ [](pc \in ScanningPcs \cup {"process", "listen"} =>
             ~idleRunning /\ idleDone = <<>>)
    /\ [][(pc \in WaitingPcs /\ pc' \notin WaitingPcs \cup {"panic"}) =>
             /\ pc = "select"
             /\ ~idleRunning
             /\ idleDone # <<>> /\ idleDone' = <<>>]_vars

\* the second scan runs after a wait in which a notification naming INBOX
\* was received
C28_Witness ==
    /\ scan = 2
    /\ pc \in ScanningPcs
    /\ sawInbox
    /\ ~idleRunning

\* C29: the client never sends a notification on a closed updates channel,
\* however its sender interleaves with close(stop); close(updates);
\* c.Updates = nil of main: no sender is sending on a closed channel and
\* none has panicked.
C29_NoSendOnClosedChannel == ~SendingOnClosed /\ sender # "panic"

\* C30: whenever a scan is in progress (match or action phase) no updates
\* channel is installed on the client, however the wait before it ended.
C30_NoSubscriptionDuringScan == pc \in ScanningPcs => ~cUpdates

\* the elements of a sequence
Elems(q) == {q[k] : k \in 1..Len(q)}

\* the fetch of the current scan was started with message u in the mailbox
InFetch(u) == u \in Elems(fetchList) \cup Elems(fetched)

\* C31: every message that arrives in INBOX, at whatever time, is
\* eventually covered by a scan whose fetch starts after the arrival,
\* provided the idle call returns once stop is closed and the server only
\* notifies a subscribed client (unless the process has ended, or the run
\* has had all the scans the model follows).
C31_ArrivalEventuallyScanned ==
    \A u \in UIDs :
       (u \in inbox /\ ~InFetch(u)) ~>
          (InFetch(u) \/ pc \in {"exit", "panic"} \/ scan = MaxScans)

\* the step in which main reads the fetch error from done
FetchErrorRead == fetchDone # <<>> /\ fetchDone' = <<>> /\ Head(fetchDone)

\* C32: if the envelope fetch of a scan ends with an error, the action
\* phase is still run first: when main reads the error from done, and only
\* then does it exit, every rule's Action has been invoked, every message
\* delivered before the failure was fed to every rule, and every Move, Flag
\* or Unflag rule has issued its one request for the identifiers it matched
\* among them.
C32_ActionsBeforeFetchError ==
    /\ [][FetchErrorRead =>
            /\ pc = "action" /\ pc' = "exit"
            /\ messagesClosed /\ messages = <<>>
            /\ \A i \in RuleIds :
                  /\ ActionRan(i)
                  /\ Fed(i) = Elems(fetched)
                  /\ added[i] \subseteq {u \in Elems(fetched) : Matched(i, u)}
            /\ \A b \in MutationRules :
                  /\ added[b] = {u \in Elems(fetched) : Matched(b, u)}
                  /\ Len(ReqsOf(b)) = IF added[b] = {} THEN 0 ELSE 1
            /\ \A b \in MutationRules : added[b] # {} =>
                  WithoutOk(ReqsOf(b)[1]) = ExpectedRequest(b, added[b])]_vars
    /\ [][(pc \in ScanningPcs /\ pc' = "exit") => FetchErrorRead]_vars

\* the process has exited on the error of a fetch that failed after it had
\* delivered message 1 and before message 2, and a rule has issued a
\* request for message 1
C32_Witness ==
    /\ pc = "exit" /\ fetchErr
    /\ fetched = <<1>> /\ fetchList # <<>>
    /\ \E n \in 1..Len(requests) : requests[n].ids = {1}

\* the sink answered the request of the call
SinkAnswered(c) ==
    /\ ~c.doErr
    /\ c.Content = "html" => c.prepare = "ok"

\* C33: handleMessage of a Stream rule returns an error whenever the sink
\* answers with a status code outside 200..299, for both content kinds, and
\* returns nil for the status codes inside that range.
C33_StatusOutside2xxIsError ==
    (hCall.returned /\ SinkAnswered(hCall)) =>
       (hCall.err = NilErr <=>
          (200 <= hCall.StatusCode /\ hCall.StatusCode <= 299))

RECURSIVE TokenCalls(_, _)
\* the first n calls of NextToken from lexer state l on, up to the call
\* that returns the EOF or the Error token: the token of each, and the read
\* position before and after it
TokenCalls(l, n) ==
    IF n = 0 THEN <<>>
    ELSE LET nt == NextToken(l)
             tc == [tok |-> nt.tok, before |-> l.rpos, after |-> nt.lex.rpos,
                      nextpos |-> nt.lex.nextpos]
         IN IF nt.tok.Type \in {"TokenEOF", "TokenError"} THEN <<tc>>
            ELSE <<tc>> \o TokenCalls(nt.lex, n - 1)

\* C34: tokenization terminates: on every input the calls of NextToken never
\* move the read position back or past the end of the input, every call
\* that returns a token other than EOF or Error moves it forward, and so
\* the EOF or an Error token is returned after at most len(input) other
\* tokens (comments counted); the same holds of every call of Parser.Lex in
\* a parse.
C34_TokenizationTerminates ==
    /\ [](LET n == Len(lex.buf)
              tcs == TokenCalls(NewLexer(lex.buf), n + 2)
          IN /\ Len(tcs) <= n + 1
             /\ tcs[Len(tcs)].tok.Type \in {"TokenEOF", "TokenError"}
             /\ \A k \in 1..Len(tcs) :
                   /\ tcs[k].before <= tcs[k].after
                   /\ tcs[k].after <= n /\ tcs[k].nextpos <= n
                   /\ tcs[k].tok.Type \notin {"TokenEOF", "TokenError"} =>
                         tcs[k].before < tcs[k].after)
    /\ [][(parsePc = "lex" /\ parsePc' # "lex") =>
            /\ lex.rpos <= lex'.rpos /\ lex'.rpos <= Len(lex.buf)
            /\ p'.last.Type \notin {"TokenEOF", "TokenError"} =>
                  lex.rpos < lex'.rpos]_vars

\* a text of several tokens was lexed to its end and its parse has returned
C34_Witness ==
    /\ parsePc = "returned"
    /\ p.last.Type = "TokenEOF"
    /\ Len(TokenCalls(NewLexer(lex.buf), Len(lex.buf) + 2)) >= 8

====
